---- MODULE Spec2Model ----
(***************************************************************************)
(* Verification model of the installer/manager:                            *)
(*   - Config (ou_dedetai/config.py): persisted and ephemeral              *)
(*     configuration, prompted resolution and dependent-field resets.      *)
(*   - CLI ask protocol (ou_dedetai/cli.py): the queue/event hand-off      *)
(*     between caller threads and the user-input thread.                   *)
(*   - Install step chain (installer.py): the recursive ensure_* chain.    *)
(* Each part has its own specification; the variables of the other parts   *)
(* stay at their initial values.                                           *)
(***************************************************************************)
EXTENDS Integers, Sequences, FiniteSets, TLC

VARIABLES
    raw,        \* Config._raw : PersistentConfiguration (in memory)
    overrides,  \* Config._overrides : EphemeralConfiguration
    disk,       \* contents of the configuration file
    last,       \* history: the last Config operation, its inputs and outcome
    cleared,    \* history: dependent fields emptied by an upstream change
    \* CLI (ou_dedetai/cli.py)
    running,       \* CLI.running
    input_q,       \* CLI.input_q : prompts for the user-input thread
    choice_q,      \* CLI.choice_q : the user's choices
    input_event,   \* CLI.input_event flag
    choice_event,  \* CLI.choice_event flag
    active,        \* the caller threads of this run
    cpc,           \* caller thread -> where it is in _ask / _info / exit
    ccall,         \* caller thread -> its current (or last) call
    ccount,        \* caller thread -> calls started
    cret,          \* caller thread -> what its last _ask returned
    ppc,           \* where user_input_processor is
    prompt,        \* user_input_processor's local prompt
    exited,        \* CLI.exit has been called
    called,        \* history: the kinds of call made so far
    \* Install chain (installer.py)
    INSTALL_STEP,         \* config.INSTALL_STEP
    INSTALL_STEPS_COUNT,  \* config.INSTALL_STEPS_COUNT
    percent,       \* the last percentage given to msg.progress
    stack,         \* the ensure_* calls in progress, the innermost last
    descending,    \* the innermost call has not yet called its predecessor
    target,        \* the step the caller invoked
    order,         \* history: the steps whose body ran in this invocation
    runs,          \* invocations started
    icfg,          \* the config module's globals
    opts,          \* the flags of this process: front-end, run mode, skips
    answers,       \* what the front-end delivers when asked
    env,           \* the files, directories and registry markers there are
    effects,       \* history: the commands issued in this invocation
    critical,      \* a message was logged at critical severity
    raised,        \* an exception ended the invocation
    fullDone,      \* a whole chain has completed
    prior,         \* a whole chain had completed when this invocation began
    envStart,      \* history: env when this invocation began
    cfgStart,      \* history: icfg when this invocation began
    \* LogosManager (logos.py)
    logos_state,   \* self.logos_state
    indexing_state,\* self.indexing_state
    processes,     \* self.processes: name -> what is stored under it
    existing_processes,  \* self.existing_processes: the names that hold a list
    waiters,       \* the wait_on_indexing threads of index(): what each waits for
    osrun,         \* the executables of the app that are running
    installed,     \* app.is_installed()
    startpc,       \* where a start() in progress is
    threads,       \* the threads started and not yet run
    runpc,         \* where CLI.run_installed_app is
    lop,           \* history: the last LogosManager call
    \* BackupTask / RestoreTask (backup.py)
    bmode,         \* self.mode
    bpc,           \* where the run is
    bfs,           \* the subdirectories at source and destination, the folder
    bstart,        \* history: bfs before the task was constructed
    bcfg,          \* data folder set, backups present, enough free space,
                   \* the backup folder stored and the folders on disk
    data_size,     \* self.data_size
    outcome,       \* the reason given to app.exit, or the final status
    blog,          \* history: what the run has done
    thread,        \* the copy worker: "none", "alive" or "dead"
    disk_used,     \* shutil.disk_usage(self.destination_dir).used
    destination_disk_used_init,  \* self.destination_disk_used_init (0: unset)
    percents,      \* history: the percents passed to app.status by the loop
    backup_dir,    \* the entries of self.backup_dir: name -> kind
    options,       \* the options of the restore prompt
    \* LegacyConfiguration (config.py)
    config_file,   \* the file at config_file_path: its kind and its items
    environ,       \* os.environ: variable -> value
    legacy,        \* what LegacyConfiguration.load_from_path has returned
    \* wine.check_wine_rules (wine.py)
    wine_release,  \* the WineRelease given, or none known
    wine_target,   \* the product version and whether its release is an older one
    wine_verdict,  \* what check_wine_rules has returned
    \* database.watch_db (database.py)
    wpc,           \* where watch_db is: start, loop
    wq,            \* the inotify events not yet read
    swallow_one,   \* swallow_one
    handled        \* the event read last and what was done with it

cfgVars == <<raw, overrides, disk, last, cleared>>

cliVars == <<running, input_q, choice_q, input_event, choice_event, active,
             cpc, ccall, ccount, cret, ppc, prompt, exited, called>>

instVars == <<INSTALL_STEP, INSTALL_STEPS_COUNT, percent, stack, descending,
              target, order, runs, icfg, opts, answers, env, effects, critical,
              raised, fullDone, prior, envStart, cfgStart>>

logosVars == <<logos_state, indexing_state, processes, existing_processes, waiters, osrun,
              installed,
               startpc, threads, runpc, lop>>

progressVars == <<thread, disk_used, destination_disk_used_init, percents>>

listVars == <<backup_dir, options>>

backupVars == <<bmode, bpc, bfs, bstart, bcfg, data_size, outcome, blog,
                progressVars, listVars>>

legacyVars == <<config_file, environ, legacy>>

wineVars == <<wine_release, wine_target, wine_verdict>>

dbVars == <<wpc, wq, swallow_one, handled>>

moreVars == <<logosVars, backupVars, legacyVars, wineVars, dbVars>>

vars == <<cfgVars, cliVars, instVars, moreVars>>

(***************************************************************************)
(* Values.  Every configuration value is a string; None is Python's None.  *)
(***************************************************************************)
None == "<None>"

Products == {"Logos", "Verbum"}
Versions == {"10", "9"}
Releases == {"30.1"}
InstallDirs == {"/iA"}
RelWine == "data/bin/wine64"
WineAnswers == {"/usr/bin/wine64", "/opt/wine.AppImage", "/nowhere/wine", RelWine}
WinetricksAnswers == {"Download", "/usr/bin/winetricks", "/nowhere/winetricks"}
ReleaseList == "30.1"

\* The files that exist on the (unchanging) filesystem of the model.
ExistingFiles == {"/usr/bin/wine64", "/opt/wine.AppImage", "/usr/bin/winetricks",
                  "/iA/data/bin/wine64"}

IsAbs(p) == p \in {"/usr/bin/wine64", "/opt/wine.AppImage", "/nowhere/wine",
                   "/usr/bin/winetricks", "/nowhere/winetricks",
                   "/iA/data/bin/wine64", "/iA"}

\* Path(d) / p
Join(d, p) == IF IsAbs(p) THEN p ELSE d \o "/" \o p

Exists(p) == p \in ExistingFiles

\* str.startswith(str(install_dir)) for the paths of the model
StartsWith(p, d) == d # None /\ \E r \in {RelWine} : p = d \o "/" \o r

\* utils.get_relative_path(path, base)
get_relative_path(p, d) ==
    IF ~IsAbs(p) THEN p
    ELSE IF StartsWith(p, d) THEN CHOOSE r \in {RelWine} : p = d \o "/" \o r
    ELSE p

\* not getattr(self._raw, parameter)
Falsy(v) == v = None \/ v = ""

\* str(value)
Str(v) == IF v = None THEN "None" ELSE v

RawFields == {"faithlife_product", "faithlife_product_version",
              "faithlife_product_release", "install_dir", "wine_binary",
              "wine_binary_code", "winetricks_binary",
              "faithlife_product_releases"}

\* PersistentConfiguration() with every field at its default
EmptyRaw == [f \in RawFields |-> None]

\* utils.get_winebin_code_and_desc(app, binary)[0]
get_winebin_code(p) ==
    IF p = "/opt/wine.AppImage" THEN "AppImage" ELSE "System"

(***************************************************************************)
(* A Config call is evaluated on a context c: the configuration it sees    *)
(* and changes, the fields the front-end was asked for, whether the file   *)
(* was written, whether a ValueError is propagating, and the value         *)
(* returned.                                                               *)
(***************************************************************************)
Ctx(r, o, d) ==
    [raw |-> r, ov |-> o, disk |-> d, asked |-> {}, wrote |-> FALSE,
     kept |-> TRUE, err |-> FALSE, val |-> None]

\* PersistentConfiguration.write_config, the loop over output.items(): a
\* value that starts with install_dir is made relative to it
Relativised(r) ==
    [f \in RawFields |->
        IF r.install_dir # None /\ f # "install_dir" /\ StartsWith(r[f], r.install_dir)
        THEN get_relative_path(r[f], r.install_dir)
        ELSE r[f]]

\* PersistentConfiguration.write_config: output is self.__dict__ itself, so
\* the paths made relative to install_dir are changed in memory as well.
\* kept: every write of the call so far has left the fields in memory as it
\* was given them.
write_config(c) ==
    [c EXCEPT !.raw = Relativised(c.raw), !.disk = Relativised(c.raw), !.wrote = TRUE,
              !.kept = @ /\ Relativised(c.raw) = c.raw]

\* Config._write
Write(c) == write_config(c)

\* App.ask(question, options): the front-end's answer for the field
Ask(c, p, ans) == [c EXCEPT !.asked = @ \cup {p}, !.val = ans[p]]

Raise(c) == [c EXCEPT !.err = TRUE, !.val = "ValueError"]

\* faithlife_product.setter
SetProduct(c, v) ==
    IF c.raw.faithlife_product # v
    THEN Write([c EXCEPT !.raw.faithlife_product = v,
                         !.raw.faithlife_product_release = None])
    ELSE c

SetVersionNoInstallDirReset(c, v) ==
    IF c.raw.faithlife_product_version # v
    THEN Write([c EXCEPT !.raw.faithlife_product_version = v,
                         !.raw.faithlife_product_release = None,
                         !.raw.wine_binary = None,
                         !.raw.wine_binary_code = None,
                         !.raw.winetricks_binary = None])
    ELSE c

\* faithlife_product_version.setter
SetVersion(c, v) ==
    IF c.raw.faithlife_product_version # v
    THEN Write([c EXCEPT !.raw.faithlife_product_version = v,
                         !.raw.faithlife_product_release = None,
                         !.raw.install_dir = None,
                         !.raw.wine_binary = None,
                         !.raw.wine_binary_code = None,
                         !.raw.winetricks_binary = None])
    ELSE c

\* faithlife_product_release.setter
SetRelease(c, v) ==
    IF c.raw.faithlife_product_release # v
    THEN Write([c EXCEPT !.raw.faithlife_product_release = v])
    ELSE c

\* winetricks_binary.setter
SetWinetricks(c, v) ==
    IF v # None /\ v # "Download" /\ ~Exists(v) THEN Raise(c)
    ELSE IF c.raw.winetricks_binary # v
    THEN Write([c EXCEPT !.raw.winetricks_binary = v])
    ELSE c

\* getattr(Config, parameter).fset(self, answer) when the property has a
\* setter, else setattr(self._raw, parameter, answer); self._write()
FSet(c, p, v) ==
    CASE p = "faithlife_product" -> SetProduct(c, v)
      [] p = "faithlife_product_version" -> SetVersion(c, v)
      [] p = "faithlife_product_release" -> SetRelease(c, v)
      [] p = "winetricks_binary" -> SetWinetricks(c, v)
      [] OTHER -> Write([c EXCEPT !.raw[p] = v])

\* _ask_if_not_found: for dependent_parameter in dependent_parameters:
\* setattr(self._raw, dependent_parameter, None)
ClearDependents(c, deps) ==
    [c EXCEPT !.raw = [f \in RawFields |-> IF f \in deps THEN None ELSE c.raw[f]]]

\* _ask_if_not_found: return str(getattr(self._raw, parameter))
StoredValue(c, p) == IF c.err THEN c ELSE [c EXCEPT !.val = Str(c.raw[p])]

\* _ask_if_not_found: answer = self.app.ask(question, options), then the
\* answer is stored through the setter
AskAndStore(c, p, ans) == StoredValue(FSet(Ask(c, p, ans), p, ans[p]), p)

AskIfNotFoundAlwaysAsk(c, p, deps, ans) ==
    IF c.err THEN c ELSE AskAndStore(ClearDependents(c, deps), p, ans)

\* Config._ask_if_not_found(parameter, question, options, dependent_parameters)
AskIfNotFound(c, p, deps, ans) ==
    IF c.err THEN c
    ELSE IF Falsy(c.raw[p]) THEN AskAndStore(ClearDependents(c, deps), p, ans)
    ELSE StoredValue(c, p)

\* faithlife_product (getter)
GetProduct(c, ans) ==
    AskIfNotFound(c, "faithlife_product",
                  {"faithlife_product_version", "faithlife_product_release"}, ans)

\* faithlife_product_version (getter)
GetVersion(c, ans) ==
    IF c.err THEN c
    ELSE IF c.ov.faithlife_product_version # None
    THEN [c EXCEPT !.val = c.ov.faithlife_product_version]
    ELSE AskIfNotFound(GetProduct(c, ans), "faithlife_product_version", {}, ans)

\* faithlife_product_release (getter): the list of releases is fetched and
\* written when it is not there yet
FetchReleases(c) ==
    IF c.err \/ c.raw.faithlife_product_releases # None THEN c
    ELSE Write([c EXCEPT !.raw.faithlife_product_releases = ReleaseList])

\* faithlife_product_release (getter)
GetRelease(c, ans) ==
    AskIfNotFound(FetchReleases(GetVersion(GetProduct(c, ans), ans)),
                  "faithlife_product_release", {}, ans)

\* install_dir (getter): the default names product and version, the
\* question names the product
GetInstallDir(c, ans) ==
    AskIfNotFound(GetProduct(GetVersion(GetProduct(c, ans), ans), ans),
                  "install_dir", {}, ans)

\* winetricks_binary (getter): the path inside install_dir when it exists
WinetricksPath(c, output) ==
    IF c.err THEN c
    ELSE IF Exists(Join(c.val, output)) THEN [c EXCEPT !.val = Join(c.val, output)]
    ELSE [c EXCEPT !.val = output]

\* winetricks_binary (getter): self.install_dir is read after the question
WinetricksInDir(c, ans) == WinetricksPath(GetInstallDir(c, ans), c.val)

\* winetricks_binary (getter)
GetWinetricks(c, ans) ==
    WinetricksInDir(AskIfNotFound(GetProduct(c, ans), "winetricks_binary", {}, ans),
                    ans)

SetWineBinaryKeepCode(c, value) ==
    IF c.err THEN c
    ELSE IF ~Exists(value) THEN Raise(c)
    ELSE IF c.raw.wine_binary # value
    THEN Write([c EXCEPT !.raw.wine_binary = value, !.val = None])
    ELSE [c EXCEPT !.val = None]

\* wine_binary.setter, from `if not Path(value).is_file()` on
SetWineBinaryTo(c, value) ==
    IF c.err THEN c
    ELSE IF ~Exists(value) THEN Raise(c)
    ELSE IF c.raw.wine_binary # value
    THEN Write([c EXCEPT !.raw.wine_binary = value,
                         !.raw.wine_binary_code = None,
                         !.ov.wine_appimage_path = None,
                         !.val = None])
    ELSE [c EXCEPT !.val = None]

\* wine_binary.setter: aboslute_path = Path(self.install_dir) / Path(value);
\* if aboslute_path.is_file(): value = aboslute_path
SetWineBinaryIn(c, v) ==
    SetWineBinaryTo(c, IF Exists(Join(c.val, v)) THEN Join(c.val, v) ELSE v)

\* wine_binary.setter
SetWineBinary(c, v, ans) == SetWineBinaryIn(GetInstallDir(c, ans), v)

\* wine_binary (getter): choice = self.app.ask(question, options);
\* self.wine_binary = choice
AskWineChoice(c, ans) ==
    IF c.err THEN c
    ELSE SetWineBinary(Ask(c, "wine_binary", ans), ans.wine_binary, ans)

\* wine_binary (getter), output is None: the question text and the options
\* read product, version, install dir and release before the front-end is
\* asked
AskWine(c, ans) ==
    AskWineChoice(
        GetRelease(GetInstallDir(GetVersion(GetProduct(c, ans), ans), ans), ans),
        ans)

\* wine_binary (getter): the full path is returned when the stored path
\* exists only inside install_dir
WineJoin(c, output) ==
    IF c.err THEN c
    ELSE IF /\ c.raw.wine_binary # None
            /\ ~Exists(c.raw.wine_binary)
            /\ Exists(Join(c.val, c.raw.wine_binary))
    THEN [c EXCEPT !.val = Join(c.val, c.raw.wine_binary)]
    ELSE [c EXCEPT !.val = output]

\* wine_binary (getter): self.install_dir is read only when the stored path
\* does not exist as it stands
WineFullPath(c, output, ans) ==
    WineJoin(IF c.err \/ c.raw.wine_binary = None \/ Exists(c.raw.wine_binary)
             THEN c ELSE GetInstallDir(c, ans),
             output)

GetWineBinaryStored(c, ans) == [c EXCEPT !.val = c.raw.wine_binary]

\* wine_binary (getter)
GetWineBinary(c, ans) ==
    IF c.raw.wine_binary # None
    THEN WineFullPath(c, c.raw.wine_binary, ans)
    ELSE WineFullPath(AskWine(c, ans), ans.wine_binary, ans)

\* wine_binary_code (getter): return self._raw.wine_binary_code
StoredCode(c) == [c EXCEPT !.val = c.raw.wine_binary_code]

\* wine_binary_code (getter): the code of self.wine_binary is stored
StoreWineCode(c) ==
    IF c.err THEN c
    ELSE StoredCode(Write([c EXCEPT !.raw.wine_binary_code = get_winebin_code(c.val)]))

\* wine_binary_code (getter)
GetWineBinaryCode(c, ans) ==
    IF c.raw.wine_binary_code # None THEN StoredCode(c)
    ELSE StoreWineCode(GetWineBinary(c, ans))

\* wine_appimage_path.setter
SetWineAppimagePath(c, v) ==
    IF c.ov.wine_appimage_path # v
    THEN [c EXCEPT !.ov.wine_appimage_path = v, !.raw.wine_binary_code = None]
    ELSE c

(***************************************************************************)
(* Config operations as actions.  The front-end's answers are inputs.      *)
(***************************************************************************)
otherThanCfg == <<cliVars, instVars, moreVars>>

AskFields == {"faithlife_product", "faithlife_product_version",
              "faithlife_product_release", "install_dir", "wine_binary",
              "winetricks_binary"}

AnswerDomain(f) ==
    CASE f = "faithlife_product" -> Products
      [] f = "faithlife_product_version" -> Versions
      [] f = "faithlife_product_release" -> Releases
      [] f = "install_dir" -> InstallDirs
      [] f = "wine_binary" -> WineAnswers
      [] f = "winetricks_binary" -> WinetricksAnswers

AnsDom(f, fields) == IF f \in fields THEN AnswerDomain(f) ELSE {None}

\* The answers the front-end would give, for the fields a call can ask for
AnsFor(fields) ==
    {[faithlife_product |-> a, faithlife_product_version |-> b,
      faithlife_product_release |-> c, install_dir |-> d, wine_binary |-> e,
      winetricks_binary |-> g] :
        a \in AnsDom("faithlife_product", fields),
        b \in AnsDom("faithlife_product_version", fields),
        c \in AnsDom("faithlife_product_release", fields),
        d \in AnsDom("install_dir", fields),
        e \in AnsDom("wine_binary", fields),
        g \in AnsDom("winetricks_binary", fields)}

PVFields == {"faithlife_product", "faithlife_product_version"}
DirFields == PVFields \cup {"install_dir"}
WineFields == DirFields \cup {"faithlife_product_release", "wine_binary"}

\* The fields among `fields` a call made now can ask for: the unset ones
\* and the ones an earlier answer of the same call resets (a new product
\* resets version and release, a new version resets the rest).  The answers
\* for the other fields are never read.
Needed(fields) ==
    LET askP == Falsy(raw.faithlife_product)
        askV == /\ overrides.faithlife_product_version = None
                /\ (askP \/ Falsy(raw.faithlife_product_version))
    IN {f \in fields :
          CASE f = "faithlife_product" -> askP
            [] f = "faithlife_product_version" -> askV
            [] f = "faithlife_product_release" -> askP \/ askV \/ Falsy(raw[f])
            [] OTHER -> askV \/ Falsy(raw[f])}

Dependents == {"faithlife_product_release", "install_dir", "wine_binary"}

\* The dependents declared where _ask_if_not_found is called for a parameter
DeclaredDeps(p) ==
    IF p = "faithlife_product"
    THEN {"faithlife_product_version", "faithlife_product_release"}
    ELSE {}

NoAnswers == [f \in AskFields |-> None]

\* No Config call is in progress
Idle ==
    [op |-> "idle", arg |-> None, own |-> None, preOwn |-> None,
     preSet |-> {}, wasCleared |-> FALSE, changed |-> FALSE, asked |-> {},
     answers |-> NoAnswers, wrote |-> FALSE, kept |-> TRUE, err |-> FALSE,
     ret |-> None, ret1 |-> None]

\* The fields that hold a value
SetFields ==
    {f \in RawFields : raw[f] # None}
    \cup (IF overrides.wine_appimage_path # None THEN {"wine_appimage_path"} ELSE {})

\* The state after the call `name` on field `own` whose outcome is c, and the
\* record of the call: what the field held before, which fields held a value,
\* what was asked and answered, what was returned (ret1: by the first of two
\* calls)
Do(name, arg, own, c, ans, r1) ==
    /\ last = Idle
    /\ raw' = c.raw
    /\ overrides' = c.ov
    /\ disk' = c.disk
    /\ last' = [op |-> name, arg |-> arg, own |-> own, preOwn |-> raw[own],
                preSet |-> SetFields, wasCleared |-> own \in cleared,
                changed |-> (c.raw # raw \/ c.ov # overrides \/ c.disk # disk),
                asked |-> c.asked,
                answers |-> [f \in AskFields |->
                                IF f \in c.asked THEN ans[f] ELSE None],
                wrote |-> c.wrote, kept |-> c.kept, err |-> c.err, ret |-> c.val,
                ret1 |-> r1]
    /\ cleared' = {f \in Dependents :
                      /\ c.raw[f] = None
                      /\ (f \in cleared \/ raw[f] # None)}
    /\ UNCHANGED otherThanCfg

\* The caller takes the result of the call
Return ==
    /\ last # Idle
    /\ last' = Idle
    /\ UNCHANGED <<raw, overrides, disk, cleared>>
    /\ UNCHANGED otherThanCfg

Here == Ctx(raw, overrides, disk)

CallGetProduct ==
    \E ans \in AnsFor(Needed({"faithlife_product"})) :
        Do("get", None, "faithlife_product", GetProduct(Here, ans), ans, None)

CallSetProduct ==
    \E v \in Products \cup {None} :
        Do("set", v, "faithlife_product", SetProduct(Here, v), NoAnswers, None)

CallGetVersion ==
    \E ans \in AnsFor(Needed(PVFields)) :
        Do("get", None, "faithlife_product_version", GetVersion(Here, ans), ans, None)

CallSetVersion ==
    \E v \in Versions \cup {None} :
        Do("set", v, "faithlife_product_version", SetVersion(Here, v), NoAnswers, None)

CallGetRelease ==
    \E ans \in AnsFor(Needed(PVFields \cup {"faithlife_product_release"})) :
        Do("get", None, "faithlife_product_release", GetRelease(Here, ans), ans, None)

CallSetRelease ==
    \E v \in Releases :
        Do("set", v, "faithlife_product_release", SetRelease(Here, v), NoAnswers, None)

CallGetInstallDir ==
    \E ans \in AnsFor(Needed(DirFields)) :
        Do("get", None, "install_dir", GetInstallDir(Here, ans), ans, None)

CallGetWinetricks ==
    \E ans \in AnsFor(Needed(DirFields \cup {"winetricks_binary"})) :
        Do("get", None, "winetricks_binary", GetWinetricks(Here, ans), ans, None)

CallSetWinetricks ==
    \E v \in WinetricksAnswers :
        Do("set", v, "winetricks_binary", SetWinetricks(Here, v), NoAnswers, None)

CallGetWineBinary ==
    \E ans \in AnsFor(Needed(WineFields)) :
        Do("get", None, "wine_binary", GetWineBinary(Here, ans), ans, None)

CallSetWineBinary ==
    \E v \in WineAnswers, ans \in AnsFor(Needed(DirFields)) :
        Do("set", v, "wine_binary", SetWineBinary(Here, v, ans), ans, None)

CallGetWineBinaryCode ==
    \E ans \in AnsFor(Needed(WineFields)) :
        Do("get", None, "wine_binary_code", GetWineBinaryCode(Here, ans), ans, None)

CallSetWineAppimagePath ==
    \E v \in {None, "/opt/wine.AppImage"} :
        Do("set_wine_appimage_path", v, "wine_binary_code",
           SetWineAppimagePath(Here, v), NoAnswers, None)

\* the outcome of two calls in a row: what either asked, wrote or raised
BothCalls(c1, c2) ==
    [c2 EXCEPT !.asked = c1.asked \cup c2.asked,
               !.wrote = c1.wrote \/ c2.wrote,
               !.kept = c1.kept /\ c2.kept,
               !.err = c1.err \/ c2.err]

\* the second _ask_if_not_found after the first has returned c1
AskAgain(c1, p, ans) ==
    Do("ask_if_not_found_twice", None, p,
       BothCalls(c1, AskIfNotFound([c1 EXCEPT !.err = FALSE], p, DeclaredDeps(p), ans)),
       ans, c1.val)

\* _ask_if_not_found called twice in a row for the same parameter
CallAskIfNotFoundTwice ==
    \E p \in {"faithlife_product", "faithlife_product_version",
              "faithlife_product_release", "install_dir", "winetricks_binary"} :
      \E ans \in AnsFor({p}) :
        AskAgain(AskIfNotFound(Here, p, DeclaredDeps(p), ans), p, ans)

\* Config.__init__ on a configuration file that does not exist yet; the
\* version may be overridden from the environment
InitCfg ==
    /\ raw = EmptyRaw
    /\ overrides \in [faithlife_product_version : {None, "9"},
                      wine_appimage_path : {None}]
    /\ disk = EmptyRaw
    /\ last = Idle
    /\ cleared = {}

NextCfg ==
    \/ CallGetProduct
    \/ CallSetProduct
    \/ CallGetVersion
    \/ CallSetVersion
    \/ CallGetRelease
    \/ CallSetRelease
    \/ CallGetInstallDir
    \/ CallGetWinetricks
    \/ CallSetWinetricks
    \/ CallGetWineBinary
    \/ CallSetWineBinary
    \/ CallGetWineBinaryCode
    \/ CallSetWineAppimagePath
    \/ CallAskIfNotFoundTwice
    \/ Return

(***************************************************************************)
(* Configuration claims (specification Spec)                               *)
(***************************************************************************)
VersionDependents ==
    {"faithlife_product_release", "install_dir", "wine_binary",
     "wine_binary_code", "winetricks_binary"}

SetterCalled(f) == last.op = "set" /\ last.own = f

\* C1: when the faithlife_product_version setter is called with a value
\* different from the persisted version, then on return the persisted
\* release, install dir, wine binary, wine binary code and winetricks binary
\* are all None, whatever the configuration was before.
C1_VersionSetterClearsDependents ==
    (SetterCalled("faithlife_product_version") /\ last.arg # last.preOwn)
        => \A f \in VersionDependents : raw[f] = None

\* The version setter was called with a new value while every dependent held
\* a value.
C1_Witness ==
    /\ SetterCalled("faithlife_product_version")
    /\ last.arg # last.preOwn
    /\ VersionDependents \subseteq last.preSet
    /\ \A f \in VersionDependents : raw[f] = None

\* C2: when the faithlife_product setter is called with a value different
\* from the persisted product, then on return the persisted version and the
\* persisted release are both None.
C2_ProductSetterClearsVersionAndRelease ==
    (SetterCalled("faithlife_product") /\ last.arg # last.preOwn)
        => /\ raw.faithlife_product_version = None
           /\ raw.faithlife_product_release = None

\* C3: a read, through its getter, of a dependent field (release, install
\* dir, wine binary) that an upstream change has emptied asks the front-end
\* for that field, and what it returns is the answer just given (for a wine
\* binary inside the install dir: its full path), not the earlier value.
C3_ReadAfterInvalidationAsks ==
    (last.op = "get" /\ last.own \in Dependents /\ last.wasCleared)
        => /\ last.own \in last.asked
           /\ ~last.err =>
                last.ret \in {last.answers[last.own],
                              Join(raw.install_dir, last.answers[last.own])}

\* A dependent field emptied by an upstream change was read and a value was
\* returned.
C3_Witness ==
    /\ last.op = "get" /\ last.own \in Dependents /\ last.wasCleared
    /\ last.own \in last.asked
    /\ ~last.err

\* C4: when the wine_binary setter changes the wine binary to a different
\* valid path, then on return the persisted wine binary code and the
\* ephemeral AppImage path override are both None.
C4_WineSetterClearsCodeAndAppimage ==
    (SetterCalled("wine_binary") /\ ~last.err /\ last.arg # last.preOwn)
        => /\ raw.wine_binary_code = None
           /\ overrides.wine_appimage_path = None

\* The wine binary was changed from one path to another while the code and
\* the AppImage override held a value.
C4_Witness ==
    /\ SetterCalled("wine_binary") /\ ~last.err
    /\ last.arg # last.preOwn /\ last.preOwn # None
    /\ {"wine_binary_code", "wine_appimage_path"} \subseteq last.preSet
    /\ raw.wine_binary_code = None
    /\ overrides.wine_appimage_path = None

\* C5: _ask_if_not_found called twice in a row for a field that is resolved:
\* both calls return the stored value, the front-end is never asked, no field
\* changes and nothing is written.
C5_AskIfNotFoundResolvedIsPure ==
    (last.op = "ask_if_not_found_twice" /\ ~Falsy(last.preOwn))
        => /\ last.asked = {}
           /\ ~last.changed
           /\ ~last.wrote
           /\ ~last.err
           /\ last.ret = Str(last.preOwn)
           /\ last.ret1 = last.ret

\* _ask_if_not_found was called twice for a resolved field.
C5_Witness ==
    /\ last.op = "ask_if_not_found_twice"
    /\ ~Falsy(last.preOwn)
    /\ last.ret = last.preOwn

\* C6: a wine binary or winetricks binary answer that the setter rejects
\* never makes the getter fail: the ValueError does not leave the getter (the
\* front-end is asked again instead).
C6_RejectedAnswerDoesNotPropagate ==
    (last.op = "get" /\ last.own \in {"wine_binary", "winetricks_binary"})
        => ~last.err

(***************************************************************************)
(* CLI ask protocol: caller threads hand prompts to user_input_processor   *)
(* through input_q / input_event and take choices from choice_q /          *)
(* choice_event.  One action per statement that touches shared state.      *)
(***************************************************************************)
NCallers == 2
MaxCalls == 2

Callers == 1..NCallers

RECURSIVE Sum(_, _)
Sum(f, S) == IF S = {} THEN 0
             ELSE LET t == CHOOSE u \in S : TRUE IN f[t] + Sum(f, S \ {t})

exit_option == "Exit"
UserInputs == {"", "yes", exit_option}

NoCall == [id |-> <<0, 0>>, kind |-> "none"]
NoChoice == [q |-> <<0, 0>>, text |-> None]
NoPrompt == [id |-> <<0, 0>>, kind |-> "none", default |-> None]
ExitPrompt == [id |-> <<0, 0>>, kind |-> "exit", default |-> None]

\* threading.Event.set() on input_event: the flag is set and a thread
\* blocked in wait() is released
SetInputEvent(p) == IF p = "blocked_input" THEN "clear_input" ELSE p

\* threading.Event.set() on choice_event
SetChoiceEvent(pcs) ==
    [t \in Callers |-> IF pcs[t] = "blocked_choice" THEN "clear_choice" ELSE pcs[t]]

otherThanCLI == <<cfgVars, instVars, moreVars>>

\* the calls started so far, by all caller threads
CallsStarted == Sum(ccount, Callers)

\* a caller thread enters CLI._ask or CLI._info
StartCall(t) ==
    /\ t \in active
    /\ cpc[t] = "idle"
    /\ CallsStarted < MaxCalls
    /\ \E k \in {"ask", "info"} :
          /\ ccall' = [ccall EXCEPT ![t] = [id |-> <<t, ccount[t] + 1>>, kind |-> k]]
          /\ called' = called \cup {k}
    /\ ccount' = [ccount EXCEPT ![t] = @ + 1]
    /\ cpc' = [cpc EXCEPT ![t] = "put"]
    /\ UNCHANGED <<running, input_q, choice_q, input_event, choice_event,
                   active, cret, ppc, prompt, exited>>
    /\ UNCHANGED otherThanCLI

\* self.input_q.put((question, options))
PutPrompt(t) ==
    /\ cpc[t] = "put"
    /\ input_q' = Append(input_q,
                         [id |-> ccall[t].id, kind |-> ccall[t].kind,
                          default |-> IF ccall[t].kind = "ask"
                                      THEN "option0" ELSE "Continue?"])
    /\ cpc' = [cpc EXCEPT ![t] = "set_input"]
    /\ UNCHANGED <<running, choice_q, input_event, choice_event, active,
                   ccall, ccount, cret, ppc, prompt, exited, called>>
    /\ UNCHANGED otherThanCLI

\* self.input_event.set()
SetInput(t) ==
    /\ cpc[t] = "set_input"
    /\ input_event' = TRUE
    /\ ppc' = SetInputEvent(ppc)
    /\ cpc' = [cpc EXCEPT ![t] = "wait_choice"]
    /\ UNCHANGED <<running, input_q, choice_q, choice_event, active, ccall,
                   ccount, cret, prompt, exited, called>>
    /\ UNCHANGED otherThanCLI

\* self.choice_event.wait(): returns at once when the flag is set, blocks
\* until the next set() otherwise
WaitChoice(t) ==
    /\ cpc[t] = "wait_choice"
    /\ cpc' = [cpc EXCEPT ![t] = IF choice_event THEN "clear_choice"
                                 ELSE "blocked_choice"]
    /\ UNCHANGED <<running, input_q, choice_q, input_event, choice_event,
                   active, ccall, ccount, cret, ppc, prompt, exited, called>>
    /\ UNCHANGED otherThanCLI

\* self.choice_event.clear(); _info returns after it
ClearChoice(t) ==
    /\ cpc[t] = "clear_choice"
    /\ choice_event' = FALSE
    /\ cpc' = [cpc EXCEPT ![t] = IF ccall[t].kind = "ask" THEN "get_choice"
                                 ELSE "idle"]
    /\ UNCHANGED <<running, input_q, choice_q, input_event, active, ccall,
                   ccount, cret, ppc, prompt, exited, called>>
    /\ UNCHANGED otherThanCLI

\* output = self.choice_q.get(); return output
GetChoice(t) ==
    /\ cpc[t] = "get_choice"
    /\ choice_q # <<>>
    /\ cret' = [cret EXCEPT ![t] = Head(choice_q)]
    /\ choice_q' = Tail(choice_q)
    /\ cpc' = [cpc EXCEPT ![t] = "idle"]
    /\ UNCHANGED <<running, input_q, input_event, choice_event, active,
                   ccall, ccount, ppc, prompt, exited, called>>
    /\ UNCHANGED otherThanCLI

\* CLI.exit: self.input_q.put(None)
ExitPut(t) ==
    /\ t \in active
    /\ cpc[t] = "idle"
    /\ ccount[t] > 0
    /\ input_q' = Append(input_q, ExitPrompt)
    /\ exited' = TRUE
    /\ cpc' = [cpc EXCEPT ![t] = "exit_set"]
    /\ UNCHANGED <<running, choice_q, input_event, choice_event, active,
                   ccall, ccount, cret, ppc, prompt, called>>
    /\ UNCHANGED otherThanCLI

\* CLI.exit: self.input_event.set(); self.running = False
ExitSet(t) ==
    /\ cpc[t] = "exit_set"
    /\ input_event' = TRUE
    /\ ppc' = SetInputEvent(ppc)
    /\ running' = FALSE
    /\ cpc' = [cpc EXCEPT ![t] = "done"]
    /\ UNCHANGED <<input_q, choice_q, choice_event, active, ccall, ccount,
                   cret, prompt, exited, called>>
    /\ UNCHANGED otherThanCLI

\* user_input_processor: while self.running
ProcLoop ==
    /\ ppc = "loop"
    /\ ppc' = IF running THEN "wait_input" ELSE "stopped"
    /\ prompt' = NoPrompt
    /\ UNCHANGED <<running, input_q, choice_q, input_event, choice_event,
                   active, cpc, ccall, ccount, cret, exited, called>>
    /\ UNCHANGED otherThanCLI

\* self.input_event.wait()
ProcWait ==
    /\ ppc = "wait_input"
    /\ ppc' = IF input_event THEN "clear_input" ELSE "blocked_input"
    /\ UNCHANGED <<running, input_q, choice_q, input_event, choice_event,
                   active, cpc, ccall, ccount, cret, prompt, exited, called>>
    /\ UNCHANGED otherThanCLI

\* self.input_event.clear()
ProcClear ==
    /\ ppc = "clear_input"
    /\ input_event' = FALSE
    /\ ppc' = "get_input"
    /\ UNCHANGED <<running, input_q, choice_q, choice_event, active, cpc,
                   ccall, ccount, cret, prompt, exited, called>>
    /\ UNCHANGED otherThanCLI

\* prompt = self.input_q.get(); if prompt is None: return
ProcGet ==
    /\ ppc = "get_input"
    /\ input_q # <<>>
    /\ prompt' = Head(input_q)
    /\ input_q' = Tail(input_q)
    /\ ppc' = IF Head(input_q).kind = "exit" THEN "stopped" ELSE "input"
    /\ UNCHANGED <<running, choice_q, input_event, choice_event, active,
                   cpc, ccall, ccount, cret, exited, called>>
    /\ UNCHANGED otherThanCLI

\* choice = input(...); the default for an empty line; the exit option
\* stops the loop; self.choice_q.put(choice)
ProcInput ==
    /\ ppc = "input"
    /\ \E typed \in UserInputs :
          LET choice == IF typed = "" THEN prompt.default ELSE typed
          IN /\ running' = IF choice = exit_option THEN FALSE ELSE running
             /\ choice_q' = Append(choice_q, [q |-> prompt.id, text |-> choice])
    /\ ppc' = "set_choice"
    /\ UNCHANGED <<input_q, input_event, choice_event, active, cpc, ccall,
                   ccount, cret, prompt, exited, called>>
    /\ UNCHANGED otherThanCLI

\* self.choice_event.set()
ProcSet ==
    /\ ppc = "set_choice"
    /\ choice_event' = TRUE
    /\ cpc' = SetChoiceEvent(cpc)
    /\ ppc' = "loop"
    /\ UNCHANGED <<running, input_q, choice_q, input_event, active, ccall,
                   ccount, cret, prompt, exited, called>>
    /\ UNCHANGED otherThanCLI

\* CLI.__init__, before any caller thread runs
InitCLI ==
    /\ running = TRUE
    /\ input_q = <<>>
    /\ choice_q = <<>>
    /\ input_event = FALSE
    /\ choice_event = FALSE
    /\ cpc = [t \in Callers |-> "idle"]
    /\ ccall = [t \in Callers |-> NoCall]
    /\ ccount = [t \in Callers |-> 0]
    /\ cret = [t \in Callers |-> NoChoice]
    /\ ppc = "loop"
    /\ prompt = NoPrompt
    /\ exited = FALSE
    /\ called = {}

NextCLI ==
    \/ \E t \in Callers : StartCall(t)
    \/ \E t \in Callers : PutPrompt(t)
    \/ \E t \in Callers : SetInput(t)
    \/ \E t \in Callers : WaitChoice(t)
    \/ \E t \in Callers : ClearChoice(t)
    \/ \E t \in Callers : GetChoice(t)
    \/ \E t \in Callers : ExitPut(t)
    \/ \E t \in Callers : ExitSet(t)
    \/ ProcLoop
    \/ ProcWait
    \/ ProcClear
    \/ ProcGet
    \/ ProcInput
    \/ ProcSet

(***************************************************************************)
(* Install chain (installer.py): ensure_X first calls ensure_(X-1), then   *)
(* runs its own body.  The calls in progress are a stack; one action per   *)
(* step body.                                                              *)
(***************************************************************************)
MaxRuns == 2

\* ensure_launcher_shortcuts, the last of the steps 0 .. 22
LastStep == 22

Steps == 0..LastStep

NoStep == -1
NoPercent == -1

PredSkipsInstallDirs(k) == IF k = 10 THEN 8 ELSE k - 1

\* the function each ensure_* calls first (ensure_product_choice calls none)
Pred(k) == k - 1

PyRoundHalfUp(n, d) == (2 * n + d) \div (2 * d)

\* round(): Python rounds a tie to the even neighbour
PyRound(n, d) ==
    LET q == n \div d
        r == n % d
    IN IF 2 * r < d THEN q
       ELSE IF 2 * r > d THEN q + 1
       ELSE IF q % 2 = 0 THEN q ELSE q + 1

\* get_progress_pct(current, total)
get_progress_pct(current, total) == PyRound(current * 100, total)

SystemWine == "/usr/bin/wine64"
AppImageWine == "/opt/wine.AppImage"
SystemWinetricks == "/usr/bin/winetricks"
BinWinetricks == "/iA/data/bin/winetricks"
DefaultDir == "/iA"

\* str(path).lower().endswith('appimage')
EndsWithAppImage(p) == p = AppImageWine

\* utils.get_wine_exe_path()
get_wine_exe_path(c) == c.WINE_EXE

\* os.access(path, os.X_OK) in the environment e
XOk(p, e) ==
    \/ p \in {SystemWine, SystemWinetricks}
    \/ p = AppImageWine /\ "appimage_file" \in e
    \/ p = BinWinetricks /\ "winetricks_file" \in e

\* the config module before anything is chosen
EmptyCfg ==
    [FLPRODUCT |-> None, TARGETVERSION |-> None, TARGET_RELEASE_VERSION |-> None,
     INSTALLDIR |-> None, WINE_EXE |-> None, SELECTED_APPIMAGE_FILENAME |-> None,
     WINEBIN_CODE |-> None, WINETRICKSBIN |-> None]

\* the flags a process can run with
AllOpts ==
    [app : BOOLEAN, DIALOG : {"tk", "curses"}, runmode : {"binary", "source"},
     SKIP_FONTS : BOOLEAN, SKIP_DEPENDENCIES : BOOLEAN, SKIP_WINETRICKS : BOOLEAN]

\* the answers a front-end can deliver
AllAnswers ==
    [product : Products, version : Versions, release : Releases,
     installdir : InstallDirs, wine : {SystemWine, AppImageWine},
     tricks : {"Download", SystemWinetricks}, update : BOOLEAN]

Top == stack[Len(stack)]

Pop(st) == SubSeq(st, 1, Len(st) - 1)

\* A caller invokes ensure_<k>
Call(k) ==
    /\ stack = <<>>
    /\ runs < MaxRuns
    /\ runs' = runs + 1
    /\ target' = k
    /\ stack' = <<k>>
    /\ descending' = TRUE
    /\ order' = <<>>
    /\ effects' = {}
    /\ critical' = FALSE
    /\ raised' = FALSE
    /\ prior' = fullDone
    /\ envStart' = env
    /\ cfgStart' = icfg
    /\ UNCHANGED <<INSTALL_STEP, INSTALL_STEPS_COUNT, percent, icfg, opts,
                   answers, env, fullDone>>
    /\ UNCHANGED <<cfgVars, cliVars, moreVars>>

\* Any step function is invoked
CallAny == \E k \in Steps : Call(k)

\* The whole chain is invoked: ensure_launcher_shortcuts
CallFull == Call(LastStep)

\* config.INSTALL_STEPS_COUNT += 1; ensure_<Pred(k)>(app=app)
Enter ==
    /\ stack # <<>>
    /\ descending
    /\ INSTALL_STEPS_COUNT' = INSTALL_STEPS_COUNT + 1
    /\ IF Top = 0
       THEN descending' = FALSE /\ stack' = stack
       ELSE descending' = TRUE /\ stack' = Append(stack, Pred(Top))
    /\ UNCHANGED <<INSTALL_STEP, percent, target, order, runs, icfg, opts,
                   answers, env, effects, critical, raised, fullDone, prior,
                   envStart, cfgStart>>
    /\ UNCHANGED <<cfgVars, cliVars, moreVars>>

\* The rest of ensure_<k> once its predecessor has returned:
\* config.INSTALL_STEP += 1 (not in ensure_product_choice), the progress
\* given to update_install_feedback when the step calls it, the body with
\* its outcome (config c, environment e, commands fx, critical log), return
Step(k, emit, c, e, fx, crit) ==
    /\ stack # <<>>
    /\ ~descending
    /\ Top = k
    /\ INSTALL_STEP' = IF k = 0 THEN INSTALL_STEP ELSE INSTALL_STEP + 1
    /\ percent' = IF emit
                  THEN get_progress_pct(IF k = 0 THEN INSTALL_STEP ELSE INSTALL_STEP + 1,
                                        INSTALL_STEPS_COUNT)
                  ELSE percent
    /\ icfg' = c
    /\ env' = e
    /\ effects' = effects \cup fx
    /\ critical' = (critical \/ crit)
    /\ order' = Append(order, k)
    /\ stack' = Pop(stack)
    /\ fullDone' = (fullDone \/ (k = LastStep /\ target = LastStep))
    /\ UNCHANGED <<INSTALL_STEPS_COUNT, descending, target, runs, opts, answers,
                   raised, prior, envStart, cfgStart>>
    /\ UNCHANGED <<cfgVars, cliVars, moreVars>>

\* An exception raised in the body of ensure_<k> ends every call in progress
StepRaises(k, emit) ==
    /\ stack # <<>>
    /\ ~descending
    /\ Top = k
    /\ INSTALL_STEP' = INSTALL_STEP + 1
    /\ percent' = IF emit THEN get_progress_pct(INSTALL_STEP + 1, INSTALL_STEPS_COUNT)
                  ELSE percent
    /\ raised' = TRUE
    /\ stack' = <<>>
    /\ UNCHANGED <<INSTALL_STEPS_COUNT, descending, target, order, runs, icfg,
                   opts, answers, env, effects, critical, fullDone, prior,
                   envStart, cfgStart>>
    /\ UNCHANGED <<cfgVars, cliVars, moreVars>>

\* `if not config.X: if app: config.X = app.x_q.get() else: logging.critical`
Chosen(c, field, answer) ==
    IF c[field] = None /\ opts.app THEN [c EXCEPT ![field] = answer] ELSE c

NotChosen(c, field) == c[field] = None /\ ~opts.app

ensure_product_choice ==
    Step(0, TRUE, Chosen(icfg, "FLPRODUCT", answers.product), env, {},
         NotChosen(icfg, "FLPRODUCT"))

ensure_version_choice ==
    Step(1, TRUE, Chosen(icfg, "TARGETVERSION", answers.version), env, {},
         NotChosen(icfg, "TARGETVERSION"))

ensure_release_choice ==
    Step(2, TRUE, Chosen(icfg, "TARGET_RELEASE_VERSION", answers.release), env, {},
         NotChosen(icfg, "TARGET_RELEASE_VERSION"))

\* tk takes the default folder, curses asks
ensure_install_dir_choice ==
    Step(3, TRUE,
         Chosen(icfg, "INSTALLDIR",
                IF opts.DIALOG = "tk" THEN DefaultDir ELSE answers.installdir),
         env, {}, NotChosen(icfg, "INSTALLDIR"))

\* ensure_wine_choice after the choice: SELECTED_APPIMAGE_FILENAME and
\* WINEBIN_CODE follow from the wine path
WineCodeSet(c) ==
    [c EXCEPT !.SELECTED_APPIMAGE_FILENAME =
                  IF EndsWithAppImage(get_wine_exe_path(c))
                  THEN get_wine_exe_path(c) ELSE @,
              !.WINEBIN_CODE =
                  IF @ = None THEN get_winebin_code(get_wine_exe_path(c)) ELSE @]

ensure_wine_choice ==
    Step(4, TRUE, WineCodeSet(Chosen(icfg, "WINE_EXE", answers.wine)), env, {},
         NotChosen(icfg, "WINE_EXE"))

\* `if app: if config.WINETRICKSBIN is None: ... else: logging.critical`
ensure_winetricks_choice ==
    Step(5, TRUE, Chosen(icfg, "WINETRICKSBIN", answers.tricks), env, {}, ~opts.app)

ensure_install_fonts_choice == Step(6, TRUE, icfg, env, {}, FALSE)

ensure_check_sys_deps_choice == Step(7, TRUE, icfg, env, {}, FALSE)

ensure_installation_config == Step(8, TRUE, icfg, env, {}, FALSE)

\* Path.mkdir(parents=True, exist_ok=True) of the directories ds
Mkdir(e, ds) == IF ds \subseteq e THEN {} ELSE {"mkdir"}

\* INSTALLDIR gets its default when it is None; data/bin and the wine
\* prefix directory are made
ensure_install_dirs ==
    Step(9, TRUE,
         [icfg EXCEPT !.INSTALLDIR = IF @ = None THEN DefaultDir ELSE @],
         env \cup {"bin_dir", "wine_dir"},
         Mkdir(env, {"bin_dir", "wine_dir"}),
         ~opts.app)

\* utils.check_dependencies(app): the missing packages are installed
ensure_sys_deps ==
    IF opts.SKIP_DEPENDENCIES
    THEN Step(10, TRUE, icfg, env, {}, FALSE)
    ELSE Step(10, TRUE, icfg, env \cup {"deps"},
              IF "deps" \in env THEN {} ELSE {"install_deps"}, FALSE)

\* network.logos_reuse_download: the file is downloaded unless it is there
ReuseDownload(e, file, command) == IF file \in e THEN {} ELSE {command}

\* returns early unless the version is 9 or the wine binary is an AppImage;
\* Path(config.SELECTED_APPIMAGE_FILENAME) raises TypeError on None
ensure_appimage_download ==
    IF icfg.TARGETVERSION # "9" /\ ~EndsWithAppImage(get_wine_exe_path(icfg))
    THEN Step(11, FALSE, icfg, env, {}, FALSE)
    ELSE IF icfg.SELECTED_APPIMAGE_FILENAME = None
    THEN StepRaises(11, TRUE)
    ELSE Step(11, TRUE, icfg, env \cup {"dl_appimage"},
              ReuseDownload(env, "dl_appimage", "download_appimage"), FALSE)

\* ensure_wine_executables, inside `if not os.access(wine_exe, os.X_OK)`:
\* the AppImage is copied unless it is there, the links are replaced
WineLinksEffects(c, e) ==
    (IF c.WINEBIN_CODE \in {"AppImage", "Recommended"} /\ "appimage_file" \notin e
     THEN {"copy_appimage"} ELSE {})
    \cup {"unlink_wine_links", "symlink_wine_links"}

WineLinksEnv(c, e) ==
    e \cup (IF c.WINEBIN_CODE \in {"AppImage", "Recommended"}
            THEN {"appimage_file"} ELSE {})
      \cup {"wine_links"}

\* os.access(None, os.X_OK) raises TypeError
ensure_wine_executables ==
    IF get_wine_exe_path(icfg) = None THEN StepRaises(12, TRUE)
    ELSE IF ~XOk(get_wine_exe_path(icfg), env)
    THEN Step(12, TRUE, icfg, WineLinksEnv(icfg, env), WineLinksEffects(icfg, env), FALSE)
    ELSE Step(12, TRUE, icfg, env, {}, FALSE)

\* `if config.WINETRICKSBIN is None or config.WINETRICKSBIN.startswith('Download')`
WinetricksDefault(c) ==
    [c EXCEPT !.WINETRICKSBIN = IF @ \in {None, "Download"} THEN BinWinetricks ELSE @]

ensure_winetricks_executable ==
    IF ~XOk(WinetricksDefault(icfg).WINETRICKSBIN, env)
    THEN Step(13, TRUE, WinetricksDefault(icfg), env \cup {"winetricks_file"},
              {"download_winetricks"}, FALSE)
    ELSE Step(13, TRUE, WinetricksDefault(icfg), env, {}, FALSE)

\* only for version 9; the bottle is unpacked unless the prefix directory is
\* there
ensure_premade_winebottle_download ==
    IF icfg.TARGETVERSION # "9"
    THEN Step(14, FALSE, icfg, env, {}, FALSE)
    ELSE Step(14, TRUE, icfg,
              env \cup {"dl_bottle"}
                  \cup (IF "wine_dir" \in env THEN {} ELSE {"wine_dir", "system_reg"}),
              ReuseDownload(env, "dl_bottle", "download_bottle")
                  \cup (IF "wine_dir" \in env THEN {} ELSE {"install_bottle"}),
              FALSE)

ensure_product_installer_download ==
    Step(15, TRUE, icfg, env \cup {"dl_installer", "installer_file"},
         ReuseDownload(env, "dl_installer", "download_installer")
             \cup (IF "installer_file" \in env THEN {} ELSE {"copy_installer"}),
         FALSE)

\* `if not init_file.is_file()`: the premade bottle for version 9, else
\* wine.initializeWineBottle and wine.light_wineserver_wait
ensure_wineprefix_init ==
    IF "system_reg" \in env
    THEN Step(16, TRUE, icfg, env, {}, FALSE)
    ELSE Step(16, TRUE, icfg, env \cup {"system_reg"},
              IF icfg.TARGETVERSION = "9" THEN {"install_bottle"}
              ELSE {"wineboot", "wineserver_wait"},
              FALSE)

(***************************************************************************)
(* The classification of a wine binary.  A path is its directories, the    *)
(* stem of its name and the name's extension.                              *)
(***************************************************************************)
\* the directories a path goes through
MaxDepth == 2

PathSegments == {"usr", "bin", "test", "Proton", "PlayOnLinux"}

PathStems == {"wine64", "wine-stable_10.0-x86_64"}

PathExtensions == {"", ".exe", ".AppImage", ".appimage", ".APPIMAGE"}

WinePaths ==
    [dirs : UNION {[1..n -> PathSegments] : n \in 0..MaxDepth},
     stem : PathStems, ext : PathExtensions]

\* str.lower() of an extension
Lower(x) == IF x \in {".AppImage", ".APPIMAGE"} THEN ".appimage" ELSE x

\* str(path).lower().endswith('.appimage')
LowerEndsWithAppImage(p) == Lower(p.ext) = ".appimage"

\* a directory of the path is named s
HasSegment(p, s) == \E i \in 1..Len(p.dirs) : p.dirs[i] = s

\* a classification whose suffix test minds the letter case
get_winebin_code_and_desc_case_sensitive(p) ==
    IF p.ext = ".appimage" THEN "AppImage"
    ELSE IF HasSegment(p, "Proton") THEN "Proton"
    ELSE IF HasSegment(p, "PlayOnLinux") THEN "PlayOnLinux"
    ELSE "System"

\* utils.get_winebin_code_and_desc(binary)[0]: the suffix '.appimage' in any
\* letter case, then a Proton directory, then a PlayOnLinux directory, and
\* System for what is left
get_winebin_code_and_desc(p) ==
    IF LowerEndsWithAppImage(p) THEN "AppImage"
    ELSE IF HasSegment(p, "Proton") THEN "Proton"
    ELSE IF HasSegment(p, "PlayOnLinux") THEN "PlayOnLinux"
    ELSE "System"

\* ensure_wine_choice, 'Set WINEBIN_CODE and SELECTED_APPIMAGE_FILENAME', for
\* a wine path that is set and a code that is not
set_winebin_code ==
    /\ icfg.WINEBIN_CODE = None
    /\ icfg' = [icfg EXCEPT
                   !.SELECTED_APPIMAGE_FILENAME =
                       IF LowerEndsWithAppImage(icfg.WINE_EXE) THEN icfg.WINE_EXE ELSE @,
                   !.WINEBIN_CODE = get_winebin_code_and_desc(icfg.WINE_EXE)]
    /\ UNCHANGED <<INSTALL_STEP, INSTALL_STEPS_COUNT, percent, stack, descending,
                   target, order, runs, opts, answers, env, effects, critical,
                   raised, fullDone, prior, envStart, cfgStart>>
    /\ UNCHANGED <<cfgVars, cliVars, moreVars>>

\* the tweaks gated by utils.grep of their marker in user.reg / system.reg:
\* marker |-> command
Tweaks ==
    [reg_winemenubuilder |-> "wine_reg_install",
     reg_renderer |-> "set_renderer",
     reg_fontsmooth |-> "install_font_smoothing",
     reg_tahoma |-> "install_fonts",
     reg_d3d |-> "install_d3d_compiler",
     reg_win10 |-> "set_win_version_logos"]

\* the markers whose tweak this process applies
TweaksWanted ==
    IF opts.SKIP_FONTS THEN DOMAIN Tweaks \ {"reg_tahoma"} ELSE DOMAIN Tweaks

\* the commands after the last `if`: wine.set_win_version("indexer", "win10")
\* and wine.light_wineserver_wait()
IndexerCommands == {"set_win_version_indexer", "wineserver_wait"}

\* the step with every wanted tweak applied, marker or no marker
ensure_winetricks_applied_ungated ==
    IF opts.SKIP_WINETRICKS
    THEN Step(17, TRUE, icfg, env, {}, FALSE)
    ELSE Step(17, TRUE, icfg, env \cup TweaksWanted,
              {Tweaks[m] : m \in TweaksWanted} \cup IndexerCommands,
              FALSE)

ensure_winetricks_applied ==
    IF opts.SKIP_WINETRICKS
    THEN Step(17, TRUE, icfg, env, {}, FALSE)
    ELSE Step(17, TRUE, icfg, env \cup TweaksWanted,
              {Tweaks[m] : m \in TweaksWanted \ env} \cup IndexerCommands,
              FALSE)

ensure_icu_data_files ==
    Step(18, TRUE, icfg, env \cup {"icu"},
         IF "icu" \in env THEN {} ELSE {"install_icu"}, FALSE)

ProductMissingAlways(e) == TRUE

\* `if not utils.find_installed_product()`
ProductMissing(e) == "product" \notin e

\* wine.install_msi when the product is not found; utils.clean_all() always
ensure_product_installed ==
    Step(19, TRUE, icfg, env \cup {"product"},
         (IF ProductMissing(env) THEN {"install_msi"} ELSE {}) \cup {"clean_all"},
         FALSE)

\* the file is written when there is none; when it differs from the current
\* config the user is asked and it is overwritten on a yes
ensure_config_file ==
    IF "config_file" \notin env
    THEN Step(20, TRUE, icfg, env \cup {"config_file"}, {"write_config"}, FALSE)
    ELSE IF "config_differs" \in env
    THEN IF answers.update
         THEN Step(20, TRUE, icfg, env \ {"config_differs"},
                   {"ask_config", "write_config"}, FALSE)
         ELSE Step(20, TRUE, icfg, env, {"ask_config"}, FALSE)
    ELSE Step(20, TRUE, icfg, env, {}, FALSE)

\* in run mode binary an existing launcher is removed and the executable is
\* copied
ensure_launcher_executable ==
    IF opts.runmode = "binary"
    THEN Step(21, TRUE, icfg, env \cup {"launcher"},
              (IF "launcher" \in env THEN {"unlink_launcher"} ELSE {})
                  \cup {"copy_launcher"},
              FALSE)
    ELSE Step(21, TRUE, icfg, env, {}, FALSE)

\* create_desktop_file: an existing desktop file is removed, then written
create_desktop_file(e) ==
    (IF "desktop_files" \in e THEN {"unlink_desktop_file"} ELSE {})
    \cup {"write_desktop_file"}

\* in run mode binary the icon is copied unless it is there and the desktop
\* files are created
ensure_launcher_shortcuts ==
    IF opts.runmode = "binary"
    THEN Step(22, TRUE, icfg, env \cup {"icon", "desktop_files"},
              (IF "icon" \in env THEN {} ELSE {"copy_icon"})
                  \cup create_desktop_file(env),
              FALSE)
    ELSE Step(22, TRUE, icfg, env, {}, FALSE)

\* the installer module loaded, nothing invoked yet
InstFresh ==
    /\ INSTALL_STEP = 0
    /\ INSTALL_STEPS_COUNT = 0
    /\ percent = NoPercent
    /\ stack = <<>>
    /\ descending = FALSE
    /\ target = NoStep
    /\ order = <<>>
    /\ runs = 0
    /\ icfg = EmptyCfg
    /\ effects = {}
    /\ critical = FALSE
    /\ raised = FALSE
    /\ fullDone = FALSE
    /\ prior = FALSE
    /\ envStart = {}
    /\ cfgStart = EmptyCfg

\* The install chain of a run that only exercises another part
InstAtRest ==
    /\ InstFresh
    /\ opts = [app |-> TRUE, DIALOG |-> "tk", runmode |-> "binary",
               SKIP_FONTS |-> FALSE, SKIP_DEPENDENCIES |-> FALSE,
               SKIP_WINETRICKS |-> FALSE]
    /\ answers = [product |-> "Logos", version |-> "10", release |-> "30.1",
                  installdir |-> "/iA", wine |-> SystemWine, tricks |-> "Download",
                  update |-> FALSE]
    /\ env = {}

\* The configuration of a run that only exercises another part
CfgAtRest ==
    /\ raw = EmptyRaw
    /\ overrides = [faithlife_product_version |-> None, wine_appimage_path |-> None]
    /\ disk = EmptyRaw
    /\ last = Idle
    /\ cleared = {}

\* The CLI of a run that only exercises another part
CLIAtRest == InitCLI /\ active = {}

Bodies ==
    \/ ensure_product_choice
    \/ ensure_version_choice
    \/ ensure_release_choice
    \/ ensure_install_dir_choice
    \/ ensure_wine_choice
    \/ ensure_winetricks_choice
    \/ ensure_install_fonts_choice
    \/ ensure_check_sys_deps_choice
    \/ ensure_installation_config
    \/ ensure_install_dirs
    \/ ensure_sys_deps
    \/ ensure_appimage_download
    \/ ensure_wine_executables
    \/ ensure_winetricks_executable
    \/ ensure_premade_winebottle_download
    \/ ensure_product_installer_download
    \/ ensure_wineprefix_init
    \/ ensure_winetricks_applied
    \/ ensure_icu_data_files
    \/ ensure_product_installed
    \/ ensure_config_file
    \/ ensure_launcher_executable
    \/ ensure_launcher_shortcuts

(***************************************************************************)
(* LogosManager (logos.py): the state of the main app and of the indexer,  *)
(* driven by start(), stop(), monitor(), index() and stop_indexing(), and  *)
(* CLI.run_installed_app, which polls monitor() until the app is STOPPED.  *)
(***************************************************************************)
\* conf.logos_exe (the splash window), conf.logos_login_exe,
\* conf.logos_cef_exe (rendering) and conf.logos_indexer_exe
Exes == {"logos_exe", "logos_login_exe", "logos_cef_exe", "logos_indexer_exe"}

\* the names stop() looks up in self.processes
AppExes == {"logos_exe", "logos_login_exe", "logos_cef_exe"}

\* self.processes = {}: no name holds a subprocess.Popen
NoProcesses == [x \in Exes |-> "none"]

\* no call made yet
NoOp == [op |-> "none", pre |-> "STOPPED", ipre |-> "STOPPED", seen |-> {},
         raised |-> FALSE, log |-> <<>>]

otherThanLogos == <<cfgVars, cliVars, instVars, backupVars, legacyVars, wineVars,
                    dbVars>>

\* get_logos_pids: existing_processes gets the running processes of
\* logos_exe, logos_indexer_exe and logos_cef_exe; logos_login_exe is not
\* looked up
get_logos_pids(os) == os \cap {"logos_exe", "logos_indexer_exe", "logos_cef_exe"}

\* get_logos_pids: the names whose list is put into self.existing_processes
PolledExes == {"logos_exe", "logos_indexer_exe", "logos_cef_exe"}

\* monitor_indexing: the key is in existing_processes after get_logos_pids;
\* self.processes.get(indexer) is None (STOPPED) or a Popen, and indexer[0]
\* on a Popen raises TypeError
monitor_indexing(procs) ==
    IF procs["logos_indexer_exe"] = "popen" THEN "TypeError" ELSE "STOPPED"

IndexerHandleStored(procs) == [procs EXCEPT !["logos_indexer_exe"] = "popen"]

\* run_indexing: wine.run_wine_proc is called without its `app` argument,
\* which raises TypeError in the thread: no handle is stored
IndexerHandle(procs) == procs

\* stop() / stop_indexing() over the names it looks up: a stored Popen is
\* truthy and `for process in process_list` over it raises TypeError, with
\* the state left at STOPPING; with nothing stored there are no pids, the
\* state is STOPPED and wineserver_wait follows.  (The kill branch needs a
\* list in self.processes, which nothing stores.)
StopOutcome_without_else(procs, names) ==
    IF \E x \in names : procs[x] = "popen"
    THEN [state |-> "STOPPING", raised |-> TRUE, log |-> <<"STOPPING">>]
    ELSE [state |-> "STOPPING", raised |-> FALSE,
          log |-> <<"STOPPING", "wineserver_wait">>]

StopOutcome(procs, names) ==
    IF \E x \in names : procs[x] = "popen"
    THEN [state |-> "STOPPING", raised |-> TRUE, log |-> <<"STOPPING">>]
    ELSE [state |-> "STOPPED", raised |-> FALSE,
          log |-> <<"STOPPING", "STOPPED", "wineserver_wait">>]

\* monitor_logos over the processes found
monitor_logos(st, found, procs) ==
    IF st = "STARTING"
    THEN [state |-> IF "logos_login_exe" \in found \/ "logos_cef_exe" \in found
                    THEN "RUNNING" ELSE st,
          raised |-> FALSE, log |-> <<>>]
    ELSE IF st = "RUNNING"
    THEN IF found \cap AppExes = {}
         THEN StopOutcome(procs, AppExes)
         ELSE [state |-> st, raised |-> FALSE, log |-> <<>>]
    ELSE IF st = "STOPPING"
    THEN [state |-> st, raised |-> FALSE, log |-> <<>>]
    ELSE [state |-> IF "logos_cef_exe" \in found \/ "logos_login_exe" \in found
                    THEN "RUNNING"
                    ELSE IF "logos_exe" \in found THEN "STARTING" ELSE st,
          raised |-> FALSE, log |-> <<>>]

\* what a call leaves in the history
Op(name, raisedNow, logNow) ==
    [op |-> name, pre |-> logos_state, ipre |-> indexing_state, seen |-> osrun,
     raised |-> raisedNow, log |-> logNow]

startDeferred ==
    /\ startpc = "idle"
    /\ runpc \in {"none", "call"}
    /\ logos_state' = logos_state
    /\ startpc' = "check"
    /\ runpc' = IF runpc = "call" THEN "start" ELSE runpc
    /\ lop' = Op("start", FALSE, <<"STARTING">>)
    /\ UNCHANGED <<indexing_state, processes, osrun, installed, threads>>
    /\ UNCHANGED <<existing_processes, waiters>>
    /\ UNCHANGED otherThanLogos

\* start(), its first statement: self.logos_state = State.STARTING
start ==
    /\ startpc = "idle"
    /\ runpc \in {"none", "call"}
    /\ logos_state' = "STARTING"
    /\ startpc' = "check"
    /\ runpc' = IF runpc = "call" THEN "start" ELSE runpc
    /\ lop' = Op("start", FALSE, <<"STARTING">>)
    /\ UNCHANGED <<indexing_state, processes, osrun, installed, threads>>
    /\ UNCHANGED <<existing_processes, waiters>>
    /\ UNCHANGED otherThanLogos

\* start(), the rest: wine.check_wine_rules, then msg.logos_error or the
\* run_logos thread
start_check ==
    /\ startpc = "check"
    /\ startpc' = "idle"
    /\ runpc' = IF runpc = "start" THEN "loop" ELSE runpc
    /\ \E good_wine \in BOOLEAN :
        /\ threads' = IF good_wine THEN threads \cup {"run_logos"} ELSE threads
        /\ lop' = Op("start_check", FALSE,
                     IF good_wine THEN <<"check_wine_rules", "start_thread">>
                     ELSE <<"check_wine_rules", "logos_error">>)
    /\ UNCHANGED <<logos_state, indexing_state, processes, osrun, installed>>
    /\ UNCHANGED <<existing_processes, waiters>>
    /\ UNCHANGED otherThanLogos

\* the thread of start(): wine.run_wine_proc returns a Popen, which is
\* stored under logos_exe, or None
run_logos ==
    /\ "run_logos" \in threads
    /\ threads' = threads \ {"run_logos"}
    /\ \E spawned \in BOOLEAN :
        /\ processes' = IF spawned THEN [processes EXCEPT !["logos_exe"] = "popen"]
                        ELSE processes
        /\ osrun' = IF spawned THEN osrun \cup {"logos_exe"} ELSE osrun
    /\ UNCHANGED <<logos_state, indexing_state, installed, startpc, runpc, lop>>
    /\ UNCHANGED <<existing_processes, waiters>>
    /\ UNCHANGED otherThanLogos

\* stop()
stop ==
    /\ runpc = "none"
    /\ logos_state' = StopOutcome(processes, AppExes).state
    /\ lop' = Op("stop", StopOutcome(processes, AppExes).raised,
                 StopOutcome(processes, AppExes).log)
    /\ UNCHANGED <<indexing_state, processes, osrun, installed, startpc, threads,
                   runpc>>
    /\ UNCHANGED <<existing_processes, waiters>>
    /\ UNCHANGED otherThanLogos

\* monitor(): nothing unless the app is installed; an exception of
\* monitor_indexing or monitor_logos is logged
monitor ==
    /\ runpc = "none" \/ (runpc = "loop" /\ logos_state # "STOPPED")
    /\ IF ~installed
       THEN /\ lop' = Op("monitor_skipped", FALSE, <<>>)
            /\ UNCHANGED <<logos_state, indexing_state>>
       ELSE IF monitor_indexing(processes) = "TypeError"
       THEN /\ lop' = Op("monitor", TRUE, <<"monitor_indexing", "logging.error">>)
            /\ UNCHANGED <<logos_state, indexing_state>>
       ELSE /\ indexing_state' = monitor_indexing(processes)
            /\ logos_state' =
                   monitor_logos(logos_state, get_logos_pids(osrun), processes).state
            /\ lop' = Op("monitor",
                         monitor_logos(logos_state, get_logos_pids(osrun),
                                       processes).raised,
                         <<"monitor_indexing", "monitor_logos">>
                             \o monitor_logos(logos_state, get_logos_pids(osrun),
                                              processes).log)
    /\ existing_processes' = IF installed
                             THEN existing_processes \cup PolledExes
                             ELSE existing_processes
    /\ UNCHANGED <<processes, osrun, installed, startpc, threads, runpc, waiters>>
    /\ UNCHANGED otherThanLogos

\* index(): STARTING, the threads are started, RUNNING.  check_if_indexing
\* and wait_on_indexing are started with an Event of this call: the waiter
\* waits for the checker of the same call.
index ==
    /\ runpc = "none"
    /\ indexing_state' = "RUNNING"
    /\ threads' = threads \cup {"run_indexing"}
    /\ waiters' = waiters \cup {"waiting"}
    /\ lop' = Op("index", FALSE, <<"STARTING", "start_thread", "RUNNING">>)
    /\ UNCHANGED <<logos_state, processes, osrun, installed, startpc, runpc>>
    /\ UNCHANGED existing_processes
    /\ UNCHANGED otherThanLogos

\* check_if_indexing(index_thread): `while process.poll() is None` over what
\* utils.start_thread returned.  An object without poll() raises
\* AttributeError and the thread ends before index_finished.set(); with one
\* the loop ends when the indexer has ended and the event is set.
PollOutcomes == {"AttributeError", "finished"}

\* a thread of index(): the checker of the waiters that still wait
check_if_indexing ==
    /\ "waiting" \in waiters
    /\ \E o \in PollOutcomes :
          waiters' = (waiters \ {"waiting"})
                         \cup (IF o = "finished" THEN {"ready"} ELSE {})
    /\ UNCHANGED <<logos_state, indexing_state, processes, existing_processes,
                   osrun, installed, startpc, threads, runpc, lop>>
    /\ UNCHANGED otherThanLogos

\* a thread of index(): index_finished.wait() is over, STOPPED is assigned
wait_on_indexing ==
    /\ "ready" \in waiters
    /\ waiters' = waiters \ {"ready"}
    /\ indexing_state' = "STOPPED"
    /\ UNCHANGED <<logos_state, processes, existing_processes, osrun, installed,
                   startpc, threads, runpc, lop>>
    /\ UNCHANGED otherThanLogos

\* the thread of index()
run_indexing ==
    /\ "run_indexing" \in threads
    /\ threads' = threads \ {"run_indexing"}
    /\ processes' = IndexerHandle(processes)
    /\ UNCHANGED <<logos_state, indexing_state, osrun, installed, startpc, runpc,
                   lop>>
    /\ UNCHANGED <<existing_processes, waiters>>
    /\ UNCHANGED otherThanLogos

\* stop_indexing()
stop_indexing ==
    /\ runpc = "none"
    /\ indexing_state' = StopOutcome(processes, {"logos_indexer_exe"}).state
    /\ lop' = Op("stop_indexing",
                 StopOutcome(processes, {"logos_indexer_exe"}).raised,
                 StopOutcome(processes, {"logos_indexer_exe"}).log)
    /\ UNCHANGED <<logos_state, processes, osrun, installed, startpc, threads,
                   runpc>>
    /\ UNCHANGED <<existing_processes, waiters>>
    /\ UNCHANGED otherThanLogos

\* CLI.run_installed_app: `while self.logos.logos_state != STOPPED` is over
run_installed_app_exit ==
    /\ runpc = "loop"
    /\ logos_state = "STOPPED"
    /\ runpc' = "done"
    /\ UNCHANGED <<logos_state, indexing_state, processes, osrun, installed,
                   startpc, threads, lop>>
    /\ UNCHANGED <<existing_processes, waiters>>
    /\ UNCHANGED otherThanLogos

\* a process of the app appears (started by it or by the user) or ends
OsChange ==
    /\ \E x \in Exes : osrun' = IF x \in osrun THEN osrun \ {x} ELSE osrun \cup {x}
    /\ UNCHANGED <<logos_state, indexing_state, processes, installed, startpc,
                   threads, runpc, lop>>
    /\ UNCHANGED <<existing_processes, waiters>>
    /\ UNCHANGED otherThanLogos

\* LogosManager.__init__
InitLogos ==
    /\ logos_state = "STOPPED"
    /\ indexing_state = "STOPPED"
    /\ processes = NoProcesses
    /\ existing_processes = {}
    /\ waiters = {}
    /\ startpc = "idle"
    /\ threads = {}
    /\ lop = NoOp

\* The LogosManager of a run that only exercises another part
LogosAtRest == InitLogos /\ osrun = {} /\ installed = TRUE /\ runpc = "none"

(***************************************************************************)
(* BackupTask / RestoreTask (backup.py): one run, step by step.  The       *)
(* source is the app's data folder (backup) or the chosen backup folder    *)
(* (restore); the destination is a new <product>-<timestamp> folder under  *)
(* the backup root (backup) or the app's data folder (restore).            *)
(***************************************************************************)
MaxDataSize == 2

\* the largest usage of the destination's filesystem
MaxDiskUsed == 3

\* the turns of the polling loop that are recorded
MaxPolls == 2

\* The names under the backup root, in pieces none of which is the prefix
\* of another: a name starts with the product's name exactly when its
\* first piece is that name.
BackupNames == {<<"Logos", "-20240101">>, <<"Logos", "-20240102">>,
                <<"Logos", "-20240103">>, <<"Verbum", "-20240101">>,
                <<"old", "Logos">>, <<"Logos">>}

\* the pieces in the order of their strings
PieceRank(x) ==
    CASE x = "-20240101" -> 1
      [] x = "-20240102" -> 2
      [] x = "-20240103" -> 3
      [] x = "Logos" -> 4
      [] x = "Verbum" -> 5
      [] x = "old" -> 6

\* str.__lt__ on two names
RECURSIVE StrLess(_, _)
StrLess(a, b) ==
    IF a = <<>> THEN b # <<>>
    ELSE IF b = <<>> THEN FALSE
    ELSE IF Head(a) = Head(b) THEN StrLess(Tail(a), Tail(b))
    ELSE PieceRank(Head(a)) < PieceRank(Head(b))

\* a list of distinct strings from the greatest to the least
RECURSIVE SortedListDescending(_)
SortedListDescending(S) ==
    IF S = {} THEN <<>>
    ELSE LET m == CHOOSE x \in S : \A y \in S \ {x} : StrLess(y, x)
         IN <<m>> \o SortedListDescending(S \ {m})

\* list.sort() of a list of distinct strings
RECURSIVE SortedList(_)
SortedList(S) ==
    IF S = {} THEN <<>>
    ELSE LET m == CHOOSE x \in S : \A y \in S \ {x} : StrLess(x, y)
         IN <<m>> \o SortedList(S \ {m})

\* _get_all_backups: the entries d of backup_dir.glob('*') with d.is_dir()
\* and d.name.startswith(faithlife_product), sorted
get_all_backups(dir, product) ==
    SortedList({n \in BackupNames : dir[n] = "dir" /\ Head(n) = product})

\* a backup root without entries
EmptyBackupDir == [n \in BackupNames |-> "absent"]

\* BackupBase.DATA_DIRS
DATA_DIRS == {"Data", "Documents", "Users"}

\* the place of a directory in the list DATA_DIRS
DirRank(d) == CASE d = "Data" -> 1 [] d = "Documents" -> 2 [] d = "Users" -> 3

\* the first of the directories S in the order of DATA_DIRS
FirstDir(S) == CHOOSE d \in S : \A e \in S : DirRank(d) <= DirRank(e)

\* the last of the directories S in the order of DATA_DIRS
LastDir(S) == CHOOSE d \in S : \A e \in S : DirRank(d) >= DirRank(e)

otherThanBackup == <<cfgVars, cliVars, instVars, logosVars, legacyVars, wineVars,
                     dbVars>>

\* app.exit(reason) or an exception: the run is over
Ended(pc, reason, event) ==
    /\ bpc' = pc
    /\ outcome' = reason
    /\ blog' = Append(blog, event)
    /\ UNCHANGED <<bmode, bfs, bstart, bcfg, data_size, progressVars, listVars>>
    /\ UNCHANGED otherThanBackup

\* a step of the run that goes on
Goes(pc, fs, size, events) ==
    /\ bpc' = pc
    /\ bfs' = fs
    /\ data_size' = size
    /\ blog' = blog \o events
    /\ UNCHANGED <<bmode, bstart, bcfg, outcome, progressVars, listVars>>
    /\ UNCHANGED otherThanBackup

\* the folders the front-end can name as backup folder
BackupFolders == {"A", "B"}

\* the configurations a run can start from: bcfg.dir is _raw.backup_dir and
\* bcfg.made the folders of BackupFolders that exist on disk
BackupCfgs ==
    [appdata : BOOLEAN, backups : BOOLEAN, space : BOOLEAN,
     dir : {None, "A"}, made : SUBSET BackupFolders]

\* what a read of Config.backup_dir sees before BackupBase.__init__
StoredBackupDir == [dir |-> bcfg.dir, made |-> bcfg.made, raised |-> FALSE]

\* Config.backup_dir: _ask_if_not_found stores the answer when nothing is
\* stored, then Path(...).mkdir(parents=True), which raises FileExistsError
\* when the folder is there
backup_dir_get(st, answer) ==
    IF st.raised THEN st
    ELSE [dir |-> IF st.dir = None THEN answer ELSE st.dir,
          made |-> st.made \cup {IF st.dir = None THEN answer ELSE st.dir},
          raised |-> (IF st.dir = None THEN answer ELSE st.dir) \in st.made]

\* BackupBase.__init__, `if not self.app.approve(...)`: a declined folder
\* is reset by direct assignment
Approve(st, approved) ==
    IF approved \/ st.raised THEN st ELSE [st EXCEPT !.dir = None]

\* BackupBase.__init__: backup_dir is read for the question and read again
\* for self.backup_dir
BackupBase_reads(approved, a1, a2) ==
    backup_dir_get(Approve(backup_dir_get(StoredBackupDir, a1), approved), a2)

\* BackupBase.__init__: the two reads of conf.backup_dir; then the backup
\* root is made unless it is there, and a PermissionError ends the run
BackupBase_init ==
    /\ bpc = "new"
    /\ \E approved \in BOOLEAN, a1 \in BackupFolders, a2 \in BackupFolders :
          IF BackupBase_reads(approved, a1, a2).raised
          THEN Ended("raised", "FileExistsError", "raise")
          ELSE \/ Goes("run", bfs, data_size, <<"mkdir_backup_dir">>)
               \/ Ended("exited", "folder not accessible", "exit")

\* _run, its first statement: the status line formats self.source_dir and
\* then self.destination_dir, whose getters resolve them.  A backup's
\* destination getter makes the <product>-<timestamp> folder (an existing
\* one is kept, with a warning); a restore's source getter pops the latest
\* of the backups (IndexError when there is none) and asks.
run_status ==
    /\ bpc = "run"
    /\ IF bmode = "backup"
       THEN IF ~bcfg.appdata
            THEN Ended("exited", "Cannot backup when product is not installed.", "exit")
            ELSE Goes("subdirs", [bfs EXCEPT !.folder = TRUE], data_size,
                      (IF bfs.folder THEN <<"warning">> ELSE <<"mkdir_destination">>)
                          \o <<"status">>)
       ELSE IF ~bcfg.backups
            THEN Ended("raised", "IndexError", "raise")
            ELSE IF ~bcfg.appdata
            THEN Ended("exited", "Cannot backup when product is not installed.", "exit")
            ELSE Goes("subdirs", bfs, data_size, <<"ask", "status">>)

\* _get_source_subdirs: those of DATA_DIRS that are directories under the
\* source; app.exit when there is none
get_source_subdirs ==
    /\ bpc = "subdirs"
    /\ IF bfs.src = {}
       THEN Ended("exited", "there are no files to " \o bmode, "exit")
       ELSE Goes("size", bfs, data_size, <<>>)

\* self.data_size = self._get_dir_group_size(src_dirs)
get_dir_group_size ==
    /\ bpc = "size"
    /\ \E size \in 0..MaxDataSize : Goes("prepare", bfs, size, <<"size">>)

\* _prepare_dest_dir: every one of DATA_DIRS at the destination is removed
prepare_dest_dir ==
    /\ bpc = "prepare"
    /\ Goes("verify", [bfs EXCEPT !.dst = {}], data_size,
            IF bfs.dst = {} THEN <<>> ELSE <<"rmtree">>)

\* int(x / y) of Python for y # 0: the quotient cut towards zero
IntTrunc(x, y) == IF x >= 0 THEN x \div y ELSE -((-x) \div y)

\* _get_copy_percentage, 'if not self.destination_disk_used_init': a
\* baseline of 0 (or None) is replaced by the usage read now
Baseline(used, init) == IF init = 0 THEN used ELSE init

\* _get_copy_percentage: int(delta * 100 / self.data_size)
get_copy_percentage(used, init, size) ==
    IntTrunc((used - Baseline(used, init)) * 100, size)

\* _verify_disk_space leaving the destination folder where it is
verify_disk_space_keeps_folder ==
    /\ bpc = "verify"
    /\ \E used \in 0..MaxDiskUsed :
           disk_used' = used /\ destination_disk_used_init' = used
    /\ IF bcfg.space
       THEN /\ bpc' = "copy"
            /\ blog' = Append(blog, "disk_used_init")
            /\ UNCHANGED <<bfs, outcome>>
       ELSE /\ bpc' = "exited"
            /\ outcome' = "not enough free disk space for " \o bmode
            /\ blog' = blog \o <<"disk_used_init", "exit">>
            /\ UNCHANGED bfs
    /\ UNCHANGED <<bmode, bstart, bcfg, data_size, thread, percents, listVars>>
    /\ UNCHANGED otherThanBackup

\* self.destination_disk_used_init = self._get_dest_disk_used(), whatever
\* the usage is by now, then _verify_disk_space: without enough space the destination folder is
\* removed when it is empty and the run exits
verify_disk_space ==
    /\ bpc = "verify"
    /\ \E used \in 0..MaxDiskUsed :
           disk_used' = used /\ destination_disk_used_init' = used
    /\ IF bcfg.space
       THEN /\ bpc' = "copy"
            /\ blog' = Append(blog, "disk_used_init")
            /\ UNCHANGED <<bfs, outcome>>
       ELSE /\ bpc' = "exited"
            /\ outcome' = "not enough free disk space for " \o bmode
            /\ bfs' = [bfs EXCEPT !.folder = IF bfs.dst = {} THEN FALSE ELSE @]
            /\ blog' = blog \o <<"disk_used_init", "rmdir", "exit">>
    /\ UNCHANGED <<bmode, bstart, bcfg, data_size, thread, percents, listVars>>
    /\ UNCHANGED otherThanBackup

\* t = self.app.start_thread(self._copy_dirs, src_dirs, self.destination_dir)
start_thread ==
    /\ bpc = "copy"
    /\ bpc' = "poll"
    /\ thread' = "alive"
    /\ blog' = Append(blog, "start_thread")
    /\ UNCHANGED <<bmode, bfs, bstart, bcfg, data_size, outcome, disk_used,
                   destination_disk_used_init, percents, listVars>>
    /\ UNCHANGED otherThanBackup

\* a worker that copies the first of the source subdirectories only
copy_dirs_first_only ==
    /\ thread = "alive"
    /\ bfs' = [bfs EXCEPT !.dst = @ \cup {FirstDir(bfs.src \ bfs.dst)}]
    /\ thread' = "dead"
    /\ blog' = Append(blog, "copy")
    /\ UNCHANGED <<bmode, bpc, bstart, bcfg, data_size, outcome, disk_used,
                   destination_disk_used_init, percents, listVars>>
    /\ UNCHANGED otherThanBackup

\* _copy_dirs in its thread: shutil.copytree of the source subdirectories,
\* one after the other; the thread ends after the last of them
copy_dirs ==
    /\ thread = "alive"
    /\ bfs' = [bfs EXCEPT !.dst = @ \cup {FirstDir(bfs.src \ bfs.dst)}]
    /\ thread' = IF bfs.src \ bfs.dst = {FirstDir(bfs.src \ bfs.dst)}
                 THEN "dead" ELSE "alive"
    /\ blog' = Append(blog, "copy")
    /\ UNCHANGED <<bmode, bpc, bstart, bcfg, data_size, outcome, disk_used,
                   destination_disk_used_init, percents, listVars>>
    /\ UNCHANGED otherThanBackup

\* _copy_dirs in its thread, shutil.copytree raising (a file that cannot be
\* read, a disk that has filled up): the exception ends the thread, the
\* subdirectory and those after it are not copied
copy_error ==
    /\ thread = "alive"
    /\ thread' = "dead"
    /\ blog' = Append(blog, "copy_error")
    /\ UNCHANGED <<bmode, bpc, bfs, bstart, bcfg, data_size, outcome, disk_used,
                   destination_disk_used_init, percents, listVars>>
    /\ UNCHANGED otherThanBackup

\* _get_copy_percentage and its caller for a usage read as 'used'
status_copying(used) ==
    /\ disk_used' = used
    /\ destination_disk_used_init' = Baseline(used, destination_disk_used_init)
    /\ IF data_size = 0
       THEN /\ bpc' = "raised"
            /\ outcome' = "ZeroDivisionError"
            /\ blog' = Append(blog, "raise")
            /\ UNCHANGED percents
       ELSE /\ percents' = Append(percents, get_copy_percentage(
                                    used, destination_disk_used_init, data_size))
            /\ UNCHANGED <<bpc, outcome, blog>>
    /\ UNCHANGED <<bmode, bfs, bstart, bcfg, data_size, thread, listVars>>
    /\ UNCHANGED otherThanBackup

\* one turn of 'while t.is_alive()':
\* self.app.status("copying", self._get_copy_percentage()).
\* shutil.disk_usage(self.destination_dir).used is the usage of the whole
\* filesystem: it moves with the copy and with every other writer.
poll ==
    /\ bpc = "poll"
    /\ thread = "alive"
    /\ Len(percents) < MaxPolls
    /\ \E used \in 0..MaxDiskUsed : status_copying(used)

\* a KeyboardInterrupt that leaves the polling loop and goes on to t.join()
KeyboardInterrupt_ignored ==
    /\ bpc = "poll"
    /\ Goes("join", bfs, data_size, <<"KeyboardInterrupt">>)

\* except KeyboardInterrupt: self.app.exit("user cancelled with Ctrl+C.")
KeyboardInterrupt ==
    /\ bpc = "poll"
    /\ Ended("exited", "user cancelled with Ctrl+C.", "KeyboardInterrupt")

\* 'while t.is_alive()' is false: the loop is left
loop_exit ==
    /\ bpc = "poll"
    /\ thread = "dead"
    /\ Goes("join", bfs, data_size, <<>>)

\* t.join() and the 'Finished' status
finish ==
    /\ bpc = "join"
    /\ thread = "dead"
    /\ bpc' = "done"
    /\ outcome' = "Finished " \o bmode
    /\ blog' = Append(blog, "status")
    /\ UNCHANGED <<bmode, bfs, bstart, bcfg, data_size, progressVars, listVars>>
    /\ UNCHANGED otherThanBackup

\* RestoreTask._get_source_dir: the latest of the backups is popped off the
\* list and offered first; IndexError when there is no backup
get_source_dir ==
    /\ bpc = "run"
    /\ bmode = "restore"
    /\ IF get_all_backups(backup_dir, raw.faithlife_product) = <<>>
       THEN Ended("raised", "IndexError", "raise")
       ELSE /\ bpc' = "asked"
            /\ options' =
                   <<get_all_backups(backup_dir, raw.faithlife_product)[
                         Len(get_all_backups(backup_dir, raw.faithlife_product))]>>
                   \o SubSeq(get_all_backups(backup_dir, raw.faithlife_product), 1,
                             Len(get_all_backups(backup_dir, raw.faithlife_product)) - 1)
            /\ blog' = Append(blog, "ask")
            /\ UNCHANGED <<bmode, bfs, bstart, bcfg, data_size, outcome,
                           progressVars, backup_dir>>
            /\ UNCHANGED otherThanBackup

\* After a finished backup, a RestoreTask whose prompt is answered with the
\* folder that backup has made, into a data folder that has none of
\* DATA_DIRS, with any backup folder stored and on disk by then.  bstart
\* keeps the source of the backup.
restore_created_backup ==
    /\ bmode = "backup"
    /\ bpc = "done"
    /\ bmode' = "restore"
    /\ bpc' = "new"
    /\ bfs' = [src |-> bfs.dst, dst |-> {}, folder |-> TRUE]
    /\ \E c \in BackupCfgs :
          bcfg' = [c EXCEPT !.appdata = bcfg.appdata, !.backups = TRUE,
                            !.space = bcfg.space]
    /\ data_size' = 1
    /\ outcome' = "none"
    /\ blog' = <<"restore_created_backup">>
    /\ thread' = "none"
    /\ destination_disk_used_init' = 0
    /\ percents' = <<>>
    /\ UNCHANGED <<bstart, disk_used, listVars>>
    /\ UNCHANGED otherThanBackup

\* before BackupTask(app) / RestoreTask(app)
BackupNew ==
    /\ bpc = "new"
    /\ data_size = 1
    /\ outcome = "none"
    /\ blog = <<>>
    /\ bstart = bfs
    /\ thread = "none"
    /\ destination_disk_used_init = 0
    /\ percents = <<>>
    /\ options = <<>>

\* No backup or restore in a run that only exercises another part
BackupAtRest ==
    /\ bmode = "backup"
    /\ bfs = [src |-> {}, dst |-> {}, folder |-> FALSE]
    /\ bcfg = [appdata |-> TRUE, backups |-> FALSE, space |-> TRUE,
               dir |-> None, made |-> {}]
    /\ disk_used = 0
    /\ backup_dir = EmptyBackupDir
    /\ BackupNew

(***************************************************************************)
(* LegacyConfiguration.load_from_path (config.py).  The value of a key in   *)
(* the file is the text written there: v, 'v' in quotes, or a=b.           *)
(***************************************************************************)
\* some of the fields of LegacyConfiguration
LegacyKeys == {"FLPRODUCT", "WINE_EXE", "CONFIG_FILE"}

\* the keys a file can hold: fields and one key that is no field
FileKeys == LegacyKeys \cup {"NOT_A_FIELD"}

FileTexts == {"v", "'v'", "a=b"}

\* no such file, a .json file (well-formed or not), a .conf file, or a file
\* with another suffix
FileKinds == {"missing", "json", "bad_json", "conf", "other"}

\* config_file_path
ConfigPath(kind) ==
    CASE kind \in {"json", "bad_json", "missing"} -> "/cfg/app.json"
      [] kind = "conf" -> "/cfg/app.conf"
      [] kind = "other" -> "/cfg/app.ini"

\* the .conf branch, one line KEY=text: the line counts when split('=')
\* gives two parts, and its value loses the quotes around it
ConfLineCounts(text) == text # None /\ text # "a=b"

ConfValue(text) == IF text = "'v'" THEN "v" ELSE text

\* config_dict after the file was read: key -> value, None for no entry
config_dict(file) ==
    [k \in FileKeys |->
        CASE file.kind = "json" -> file.items[k]
          [] file.kind = "conf" ->
                 IF ConfLineCounts(file.items[k]) THEN ConfValue(file.items[k])
                 ELSE None
          [] OTHER -> None]

\* the loop over the fields with the file's entry looked at first
legacy_value_file_first(d, e, k) ==
    IF d[k] # None THEN d[k] ELSE e[k]

\* the loop 'for var in LegacyConfiguration().__dict__.keys()': os.getenv(var)
\* replaces the entry of config_dict, and the entry, if any, goes to output
legacy_value(d, e, k) ==
    IF e[k] # None THEN e[k] ELSE d[k]

\* LegacyConfiguration.load_from_path(config_file_path)
load_from_path(file, e) ==
    IF file.kind = "missing"
    THEN [state |-> "loaded",
          value |-> [k \in LegacyKeys |->
                        IF k = "CONFIG_FILE" THEN ConfigPath(file.kind) ELSE None]]
    ELSE IF file.kind = "bad_json"
    THEN [state |-> "JSONDecodeError", value |-> [k \in LegacyKeys |-> None]]
    ELSE [state |-> "loaded",
          value |-> [k \in LegacyKeys |->
                        IF k = "CONFIG_FILE" THEN ConfigPath(file.kind)
                        ELSE legacy_value(config_dict(file), e, k)]]

\* LegacyConfiguration(): every field None
NotLoaded == [state |-> "not loaded", value |-> [k \in LegacyKeys |-> None]]

\* a call of LegacyConfiguration.load_from_path
CallLoadFromPath ==
    /\ legacy = NotLoaded
    /\ legacy' = load_from_path(config_file, environ)
    /\ UNCHANGED <<config_file, environ>>
    /\ UNCHANGED <<cfgVars, cliVars, instVars, logosVars, backupVars, wineVars,
                   dbVars>>

\* No legacy configuration in a run that only exercises another part
LegacyAtRest ==
    /\ config_file = [kind |-> "missing", items |-> [k \in FileKeys |-> None]]
    /\ environ = [k \in LegacyKeys |-> None]
    /\ legacy = NotLoaded

(***************************************************************************)
(* wine.check_wine_rules (wine.py): a pure function of the wine release,   *)
(* the product version and whether the product release is one for which    *)
(* utils.check_logos_release_version(release_version, 30, 1) holds.        *)
(***************************************************************************)
MaxMajor == 11

\* majors from below the first rule (7) to above the last (10)
Majors == 5..MaxMajor

\* minors around the minimums 0, 10 and 18 and around devel_allowed = 16
Minors == {0, 9, 10, 16, 17, 18, 20}

ReleaseTypes == {"stable", "devel", "staging"}

\* float('inf') of `rule.devel_allowed or float('inf')`
Infinity == 1000

\* rules: list[WineRule]
WineRules ==
    <<[major |-> 7, proton |-> TRUE, minor_bad |-> {},
       allowed_releases |-> {"staging"}, devel_allowed |-> Infinity],
      [major |-> 8, proton |-> FALSE, minor_bad |-> {0},
       allowed_releases |-> {"staging"}, devel_allowed |-> 16],
      [major |-> 9, proton |-> FALSE, minor_bad |-> {},
       allowed_releases |-> {"devel", "staging"}, devel_allowed |-> Infinity],
      [major |-> 10, proton |-> FALSE, minor_bad |-> {},
       allowed_releases |-> {"stable", "devel", "staging"},
       devel_allowed |-> Infinity]>>

\* required_wine_minimum
required_wine_minimum(version, older) ==
    IF version = "10"
    THEN IF older THEN <<7, 18>> ELSE <<9, 10>>
    ELSE <<7, 0>>

Verdict(ok, reason) == [state |-> "returned", ok |-> ok, reason |-> reason]

\* the body of `if major == rule.major:` for a rule: the first check that
\* fails sets result and breaks; with none failing result stays (True, "None")
RuleVerdict(rule, w, min) ==
    IF /\ w.release \notin rule.allowed_releases
       /\ w.minor >= rule.devel_allowed
       /\ w.release \notin {"staging", "devel"}
    THEN Verdict(FALSE, "needs to be devel or staging")
    ELSE IF /\ w.release \notin rule.allowed_releases
            /\ w.minor < rule.devel_allowed
    THEN Verdict(FALSE, "needs to be one of the allowed releases")
    ELSE IF w.minor \in rule.minor_bad
    THEN Verdict(FALSE, "will not work")
    ELSE IF w.major < min[1]
    THEN Verdict(FALSE, "below minimum required")
    ELSE IF w.major = min[1] /\ w.minor < min[2] /\ ~rule.proton
    THEN Verdict(FALSE, "below minimum required")
    ELSE Verdict(TRUE, "None")

\* check_wine_rules: `for rule in rules: if major == rule.major:`; a major
\* that no rule lists leaves result at (True, "None")
check_wine_rules(w, version, older) ==
    IF ~w.known THEN Verdict(TRUE, "Default to trusting user override")
    ELSE IF \E i \in DOMAIN WineRules : WineRules[i].major = w.major
    THEN RuleVerdict(WineRules[CHOOSE i \in DOMAIN WineRules :
                                   WineRules[i].major = w.major],
                     w, required_wine_minimum(version, older))
    ELSE Verdict(TRUE, "None")

NotChecked == [state |-> "pending", ok |-> FALSE, reason |-> "None"]

\* good_wine, reason = wine.check_wine_rules(wine_release, ...)
CallCheckWineRules ==
    /\ wine_verdict = NotChecked
    /\ wine_verdict' = check_wine_rules(wine_release, wine_target.version,
                                        wine_target.older)
    /\ UNCHANGED <<wine_release, wine_target>>
    /\ UNCHANGED <<cfgVars, cliVars, instVars, logosVars, backupVars, legacyVars,
                   dbVars>>

\* No wine check in a run that only exercises another part
WineRulesAtRest ==
    /\ wine_release = [known |-> FALSE, major |-> 10, minor |-> 0,
                       release |-> "stable"]
    /\ wine_target = [version |-> "10", older |-> FALSE]
    /\ wine_verdict = NotChecked

(***************************************************************************)
(* database.watch_db (database.py): the statements are executed once,      *)
(* then the inotify events of the database file (and of its -wal and -shm  *)
(* files once they are watched) are read one by one.  An event in the      *)
(* queue is "own" (a modification made by watch_db's own statements),      *)
(* "ext_first" / "ext_more" (the first and the further modification events *)
(* of one write by another process) or "other" (an event that is neither   *)
(* IN_MODIFY nor IN_CLOSE_WRITE).                                          *)
(***************************************************************************)
\* the events inotify holds unread
MaxQueue == 3

\* the modification events one execution of the statements can cause
MaxOwnEvents == 2

Repeat(e, n) == [i \in 1..n |-> e]

NothingHandled == [event |-> "none", action |-> "none"]

\* 'IN_MODIFY' in type_names or 'IN_CLOSE_WRITE' in type_names
IsModification(e) == e \in {"own", "ext_first", "ext_more"}

\* execute_sql(cur) followed by swallow_one = True: the statements cause n
\* modification events (none when they change nothing or the database is
\* locked, sqlite3.OperationalError being logged)
execute_sql(queue, e, n) ==
    /\ Len(queue) + n <= MaxQueue
    /\ wq' = queue \o Repeat("own", n)
    /\ swallow_one' = TRUE
    /\ handled' = [event |-> e, action |-> "executed"]

\* watch_db up to the loop: 'Execute once before we start the loop'
watch_db ==
    /\ wpc = "start"
    /\ wpc' = "loop"
    /\ \E n \in 0..MaxOwnEvents : execute_sql(wq, "start", n)
    /\ UNCHANGED <<cfgVars, cliVars, instVars, logosVars, backupVars, legacyVars,
                   wineVars>>

\* another process writes to the database: one or two modification events
external_write ==
    /\ wpc = "loop"
    /\ \E more \in 0..1 :
        /\ Len(wq) + 1 + more <= MaxQueue
        /\ wq' = wq \o <<"ext_first">> \o Repeat("ext_more", more)
    /\ UNCHANGED <<wpc, swallow_one, handled>>
    /\ UNCHANGED <<cfgVars, cliVars, instVars, logosVars, backupVars, legacyVars,
                   wineVars>>

\* the file is opened or read: an event that is no modification
other_event ==
    /\ wpc = "loop"
    /\ Len(wq) < MaxQueue
    /\ wq' = Append(wq, "other")
    /\ UNCHANGED <<wpc, swallow_one, handled>>
    /\ UNCHANGED <<cfgVars, cliVars, instVars, logosVars, backupVars, legacyVars,
                   wineVars>>

\* one turn of `for event in i.event_gen(yield_nones=False)`
event_gen ==
    /\ wpc = "loop"
    /\ wq # <<>>
    /\ IF ~IsModification(Head(wq))
       THEN /\ wq' = Tail(wq)
            /\ handled' = [event |-> Head(wq), action |-> "ignored"]
            /\ UNCHANGED swallow_one
       ELSE IF swallow_one
       THEN /\ wq' = Tail(wq)
            /\ swallow_one' = FALSE
            /\ handled' = [event |-> Head(wq), action |-> "swallowed"]
       ELSE \E n \in 0..MaxOwnEvents : execute_sql(Tail(wq), Head(wq), n)
    /\ UNCHANGED wpc
    /\ UNCHANGED <<cfgVars, cliVars, instVars, logosVars, backupVars, legacyVars,
                   wineVars>>

\* watch_db not called
WatchAtRest ==
    /\ wpc = "start"
    /\ wq = <<>>
    /\ swallow_one = FALSE
    /\ handled = NothingHandled

(***************************************************************************)
(* Specifications                                                          *)
(***************************************************************************)
Init == InitCfg /\ CLIAtRest /\ LegacyAtRest /\ WineRulesAtRest /\ WatchAtRest /\ InstAtRest /\ LogosAtRest /\ BackupAtRest

Next == NextCfg

\* Config calls
Spec == Init /\ [][Next]_vars

\* The CLI with several caller threads
InitCLIMany ==
    /\ CfgAtRest /\ InitCLI /\ active = Callers /\ InstAtRest /\ LogosAtRest /\ BackupAtRest
    /\ LegacyAtRest /\ WineRulesAtRest /\ WatchAtRest

SpecCLI == InitCLIMany /\ [][NextCLI]_vars

\* The CLI with one caller thread
InitCLIOne ==
    /\ CfgAtRest /\ InitCLI /\ active = {1} /\ InstAtRest /\ LogosAtRest /\ BackupAtRest
    /\ LegacyAtRest /\ WineRulesAtRest /\ WatchAtRest

SpecCLIOne == InitCLIOne /\ [][NextCLI]_vars

\* Any install step invoked, with or without a front-end, on a fresh system
InitInstall ==
    /\ CfgAtRest /\ CLIAtRest /\ LegacyAtRest /\ WineRulesAtRest /\ WatchAtRest /\ InstFresh /\ LogosAtRest /\ BackupAtRest
    /\ opts \in {o \in AllOpts : /\ o.DIALOG = "tk" /\ o.runmode = "binary"
                                /\ ~o.SKIP_FONTS /\ ~o.SKIP_DEPENDENCIES
                                /\ ~o.SKIP_WINETRICKS}
    /\ answers \in {a \in AllAnswers : /\ a.product = "Logos"
                                       /\ a.tricks = "Download" /\ ~a.update}
    /\ env = {}

NextInstall == CallAny \/ Enter \/ Bodies

SpecInstall == InitInstall /\ [][NextInstall]_vars

\* The whole chain invoked again and again, under every flag, on a system
\* with or without a config file of an earlier installation
InitInstallTwice ==
    /\ CfgAtRest /\ CLIAtRest /\ LegacyAtRest /\ WineRulesAtRest /\ WatchAtRest /\ InstFresh /\ LogosAtRest /\ BackupAtRest
    /\ opts \in AllOpts
    /\ answers \in AllAnswers
    /\ env \in {{}, {"config_file", "config_differs"}}

NextInstallTwice == CallFull \/ Enter \/ Bodies

SpecInstallTwice == InitInstallTwice /\ [][NextInstallTwice]_vars

\* start(), stop(), monitor(), index() and stop_indexing() called at any
\* time, from any thread, while the processes of the app come and go
InitLogosCalls ==
    /\ CfgAtRest /\ CLIAtRest /\ LegacyAtRest /\ WineRulesAtRest /\ WatchAtRest /\ InstAtRest /\ InitLogos /\ BackupAtRest
    /\ osrun \in SUBSET Exes
    /\ installed \in BOOLEAN
    /\ runpc = "none"

NextLogos ==
    \/ start
    \/ start_check
    \/ run_logos
    \/ stop
    \/ monitor
    \/ index
    \/ run_indexing
    \/ stop_indexing
    \/ OsChange

SpecLogos == InitLogosCalls /\ [][NextLogos]_vars

\* The indexer alone, with every thread index() starts, the main app
\* being left to monitor()
InitIndexing ==
    /\ CfgAtRest /\ CLIAtRest /\ LegacyAtRest /\ WineRulesAtRest /\ WatchAtRest /\ InstAtRest /\ InitLogos /\ BackupAtRest
    /\ osrun \in SUBSET Exes
    /\ installed \in BOOLEAN
    /\ runpc = "none"

NextIndexing ==
    \/ index
    \/ run_indexing
    \/ check_if_indexing
    \/ wait_on_indexing
    \/ stop_indexing
    \/ monitor

SpecIndexing == InitIndexing /\ [][NextIndexing]_vars

\* CLI.run_installed_app on an installed app, its steps taken sooner or later
InitRunApp ==
    /\ CfgAtRest /\ CLIAtRest /\ LegacyAtRest /\ WineRulesAtRest /\ WatchAtRest /\ InstAtRest /\ InitLogos /\ BackupAtRest
    /\ osrun \in SUBSET Exes
    /\ installed = TRUE
    /\ runpc = "call"

NextRunApp ==
    \/ start
    \/ start_check
    \/ run_logos
    \/ monitor
    \/ run_installed_app_exit
    \/ OsChange

SpecRunApp ==
    /\ InitRunApp /\ [][NextRunApp]_vars
    /\ WF_vars(start) /\ WF_vars(start_check) /\ WF_vars(run_logos)
    /\ WF_vars(monitor) /\ WF_vars(run_installed_app_exit)

\* One backup or restore run, over every source and destination
InitBackup ==
    /\ CfgAtRest /\ CLIAtRest /\ LegacyAtRest /\ WineRulesAtRest /\ WatchAtRest /\ InstAtRest /\ LogosAtRest
    /\ bmode \in {"backup", "restore"}
    /\ bcfg \in BackupCfgs
    /\ bfs \in {f \in [src : SUBSET DATA_DIRS, dst : SUBSET DATA_DIRS,
                       folder : BOOLEAN] : f.dst # {} => f.folder}
    /\ disk_used = 0
    /\ backup_dir = EmptyBackupDir
    /\ BackupNew

NextBackup ==
    \/ BackupBase_init
    \/ run_status
    \/ get_source_subdirs
    \/ get_dir_group_size
    \/ prepare_dest_dir
    \/ verify_disk_space
    \/ start_thread
    \/ copy_dirs
    \/ copy_error
    \/ poll
    \/ KeyboardInterrupt
    \/ loop_exit
    \/ finish

SpecBackup == InitBackup /\ [][NextBackup]_vars

\* A backup run from a configuration with no backup folder stored yet and,
\* once it has finished, a restore of what it has made, no shutil.copytree
\* of either run raising
InitRoundTrip ==
    /\ CfgAtRest /\ CLIAtRest /\ LegacyAtRest /\ WineRulesAtRest /\ WatchAtRest /\ InstAtRest /\ LogosAtRest
    /\ bmode = "backup"
    /\ bcfg \in {c \in BackupCfgs : c.dir = None}
    /\ bfs \in {f \in [src : SUBSET DATA_DIRS, dst : SUBSET DATA_DIRS,
                       folder : BOOLEAN] : f.dst # {} => f.folder}
    /\ disk_used = 0
    /\ backup_dir = EmptyBackupDir
    /\ BackupNew

NextRoundTrip ==
    \/ BackupBase_init
    \/ run_status
    \/ get_source_subdirs
    \/ get_dir_group_size
    \/ prepare_dest_dir
    \/ verify_disk_space
    \/ start_thread
    \/ copy_dirs
    \/ poll
    \/ KeyboardInterrupt
    \/ loop_exit
    \/ finish
    \/ restore_created_backup

SpecRoundTrip == InitRoundTrip /\ [][NextRoundTrip]_vars

\* The whole chain invoked on a prefix whose registry files hold any of the
\* markers already, as after an earlier installation or from a bottle
InitTweaks ==
    /\ CfgAtRest /\ CLIAtRest /\ LegacyAtRest /\ WineRulesAtRest /\ WatchAtRest /\ InstFresh /\ LogosAtRest /\ BackupAtRest
    /\ opts \in {o \in AllOpts : /\ o.DIALOG = "tk" /\ o.runmode = "binary"
                                /\ ~o.SKIP_DEPENDENCIES /\ o.app}
    /\ answers \in {a \in AllAnswers : /\ a.product = "Logos"
                                       /\ a.tricks = "Download" /\ ~a.update}
    /\ env \in SUBSET DOMAIN Tweaks

SpecTweaks == InitTweaks /\ [][NextInstallTwice]_vars

\* The wine binary of every path classified
InitWineCode ==
    /\ CfgAtRest /\ CLIAtRest /\ LegacyAtRest /\ WineRulesAtRest /\ WatchAtRest /\ LogosAtRest /\ BackupAtRest
    /\ INSTALL_STEP = 0
    /\ INSTALL_STEPS_COUNT = 0
    /\ percent = NoPercent
    /\ stack = <<>>
    /\ descending = FALSE
    /\ target = NoStep
    /\ order = <<>>
    /\ runs = 0
    /\ icfg \in {[EmptyCfg EXCEPT !.WINE_EXE = p] : p \in WinePaths}
    /\ effects = {}
    /\ critical = FALSE
    /\ raised = FALSE
    /\ fullDone = FALSE
    /\ prior = FALSE
    /\ opts = [app |-> TRUE, DIALOG |-> "tk", runmode |-> "binary",
               SKIP_FONTS |-> FALSE, SKIP_DEPENDENCIES |-> FALSE,
               SKIP_WINETRICKS |-> FALSE]
    /\ answers = [product |-> "Logos", version |-> "10", release |-> "30.1",
                  installdir |-> "/iA", wine |-> SystemWine, tricks |-> "Download",
                  update |-> FALSE]
    /\ env = {}
    /\ envStart = {}
    /\ cfgStart = EmptyCfg

NextWineCode == set_winebin_code

SpecWineCode == InitWineCode /\ [][NextWineCode]_vars

\* A RestoreTask resolving its source, over every content of the backup root
InitListBackups ==
    /\ raw \in {[EmptyRaw EXCEPT !.faithlife_product = p] : p \in Products}
    /\ overrides = [faithlife_product_version |-> None, wine_appimage_path |-> None]
    /\ disk = EmptyRaw
    /\ last = Idle
    /\ cleared = {}
    /\ CLIAtRest /\ LegacyAtRest /\ WineRulesAtRest /\ WatchAtRest /\ InstAtRest /\ LogosAtRest
    /\ bmode = "restore"
    /\ bfs = [src |-> {}, dst |-> {}, folder |-> FALSE]
    /\ bcfg = [appdata |-> TRUE, backups |-> TRUE, space |-> TRUE,
               dir |-> None, made |-> {}]
    /\ disk_used = 0
    /\ backup_dir \in [BackupNames -> {"absent", "file", "dir"}]
    /\ BackupNew

NextListBackups ==
    \/ BackupBase_init
    \/ get_source_dir

SpecListBackups == InitListBackups /\ [][NextListBackups]_vars

\* LegacyConfiguration.load_from_path over every file and environment
InitLegacy ==
    /\ CfgAtRest /\ CLIAtRest /\ InstAtRest /\ LogosAtRest /\ BackupAtRest
    /\ WineRulesAtRest /\ WatchAtRest
    /\ config_file \in [kind : FileKinds, items : [FileKeys -> FileTexts \cup {None}]]
    /\ environ \in [LegacyKeys -> {None, "e"}]
    /\ legacy = NotLoaded

NextLegacy == CallLoadFromPath

SpecLegacy == InitLegacy /\ [][NextLegacy]_vars

\* check_wine_rules over every release, product version and product release
InitWineRules ==
    /\ CfgAtRest /\ CLIAtRest /\ InstAtRest /\ LogosAtRest /\ BackupAtRest
    /\ LegacyAtRest /\ WatchAtRest
    /\ wine_release \in [known : BOOLEAN, major : Majors, minor : Minors,
                          release : ReleaseTypes]
    /\ wine_target \in [version : {"9", "10"}, older : BOOLEAN]
    /\ wine_verdict = NotChecked

NextWineRules == CallCheckWineRules

SpecWineRules == InitWineRules /\ [][NextWineRules]_vars

\* watch_db on a database that other processes write to
InitWatch ==
    /\ CfgAtRest /\ CLIAtRest /\ InstAtRest /\ LogosAtRest /\ BackupAtRest
    /\ LegacyAtRest /\ WineRulesAtRest /\ WatchAtRest

NextWatch ==
    \/ watch_db
    \/ external_write
    \/ other_event
    \/ event_gen

SpecWatch == InitWatch /\ [][NextWatch]_vars

(***************************************************************************)
(* CLI claims                                                              *)
(***************************************************************************)
\* the caller can go no further by itself: it waits for choice_event or for
\* an item of choice_q
Stranded(t) ==
    \/ cpc[t] = "blocked_choice"
    \/ cpc[t] = "get_choice" /\ choice_q = <<>>

\* questions handed to the input thread and not yet answered
Outstanding == IF ppc \in {"input"} THEN {prompt.id} ELSE {}

\* user_input_processor sleeps on input_event and every caller either waits
\* for an answer or is between calls: nothing will wake the processor
NothingMoves ==
    /\ running /\ ~exited
    /\ ppc = "blocked_input"
    /\ \A t \in active : Stranded(t) \/ cpc[t] = "idle"

\* C7: with several threads calling ask concurrently, at most one question
\* is outstanding at any time, no question put on input_q is lost (left in
\* the queue with the input thread asleep for good), and every asker gets an
\* answer once the user has answered every prompt shown (no asker is left
\* waiting with nothing able to move).
C7_ConcurrentAskersAllAnswered ==
    called \subseteq {"ask"} =>
        /\ Cardinality(Outstanding) <= 1
        /\ ~(NothingMoves /\ input_q # <<>>)
        /\ ~(NothingMoves /\ \E t \in active : Stranded(t))

\* C8: with one caller thread, choice_q is empty whenever an _ask begins and
\* each _ask returns the choice the user entered for that _ask's own
\* question.
C8_AskReturnsOwnAnswer ==
    \A t \in active :
        /\ (cpc[t] = "put" /\ ccall[t].kind = "ask") => choice_q = <<>>
        /\ (cpc[t] = "idle" /\ ccall[t].kind = "ask") => cret[t].q = ccall[t].id

(***************************************************************************)
(* Install chain claims                                                    *)
(***************************************************************************)
\* the invocation has returned to its caller
Returned == runs > 0 /\ stack = <<>> /\ ~raised

\* C9: invoking any install step function runs every step that precedes it
\* in the chain, each exactly once per invocation and in chain order, the
\* body of a step being over before the body of the next begins: at every
\* moment the bodies run so far are steps 0, 1, 2, ... in this order, and
\* when the invocation returns they are exactly the steps 0 .. target.
C9_ChainRunsPrecedingStepsInOrder ==
    /\ \A i \in 1..Len(order) : order[i] = i - 1
    /\ Returned => Len(order) = target + 1

\* An invocation of a step in the middle of the chain has returned after the
\* bodies of all the steps up to it.
C9_Witness ==
    /\ Returned
    /\ target = 13
    /\ order = [i \in 1..14 |-> i - 1]

\* the commands the chain issues whether or not their result is there
Reissued ==
    {"clean_all"}
    \cup (IF opts.SKIP_WINETRICKS THEN {} ELSE IndexerCommands)
    \cup (IF opts.runmode = "binary"
          THEN {"unlink_launcher", "copy_launcher", "unlink_desktop_file",
                "write_desktop_file"}
          ELSE {})
    \cup (IF "config_differs" \in env THEN {"ask_config"} ELSE {})

\* a whole chain run after an earlier whole chain has completed is over
SecondRunOver == Returned /\ prior /\ target = LastStep

SideEffects ==
    {"mkdir", "install_deps", "download_appimage", "copy_appimage",
     "unlink_wine_links", "symlink_wine_links", "download_winetricks",
     "download_bottle", "install_bottle", "download_installer",
     "copy_installer", "wineboot", "install_msi"}

\* C11: with no front-end attached, once a step has met a choice that is
\* still unset and logged at critical severity, the chain is aborted: no
\* directory is created, nothing is downloaded, no prefix is initialised and
\* no product is installed by the steps after it.
C11_HeadlessCriticalAbortsChain ==
    (~opts.app /\ critical) => effects \cap SideEffects = {}

\* p is the integer nearest to n / d, the even one of the two when n / d
\* lies half way between them
NearestEven(p, n, d) ==
    /\ 2 * p * d - 2 * n \in -d..d
    /\ (2 * p * d - 2 * n \in {-d, d}) => p % 2 = 0

\* the counters as update_install_feedback may find them
CountersInRange ==
    /\ 0 <= INSTALL_STEP /\ INSTALL_STEP <= INSTALL_STEPS_COUNT
    /\ percent # NoPercent => INSTALL_STEPS_COUNT >= 1 /\ percent \in 0..100

\* a new percentage is the rounded quotient of the counters at that moment
EmissionRounded ==
    percent' # percent =>
        /\ INSTALL_STEPS_COUNT' >= 1
        /\ NearestEven(percent', INSTALL_STEP' * 100, INSTALL_STEPS_COUNT')

\* C12: every progress percentage emitted equals
\* round(INSTALL_STEP * 100 / INSTALL_STEPS_COUNT) and lies in 0..100, after
\* any sequence of complete, partial, failed or repeated invocations of the
\* chain: the counters are never reset, INSTALL_STEPS_COUNT >= 1 at each
\* emission and 0 <= INSTALL_STEP <= INSTALL_STEPS_COUNT throughout.
C12_ProgressPercentInRange == [](CountersInRange) /\ [][EmissionRounded]_vars

\* A later invocation has emitted a percentage that lies half way between
\* two integers (3 of 8 steps, 37.5, emitted as 38).
C12_Witness ==
    /\ runs = 2
    /\ percent # NoPercent
    /\ 200 * INSTALL_STEP - 2 * percent * INSTALL_STEPS_COUNT
           \in {INSTALL_STEPS_COUNT, -INSTALL_STEPS_COUNT}

(***************************************************************************)
(* LogosManager claims                                                     *)
(***************************************************************************)
\* C13: from RUNNING, one monitor() call that finds none of the splash,
\* login and rendering processes running leaves logos_state at STOPPED,
\* whether the app was spawned by start() or found already running, and a
\* monitor() call that finds none of them from STOPPED keeps it STOPPED.
C13_MonitorStopsWhenProcessesGone ==
    (/\ lop.op = "monitor"
     /\ lop.pre \in {"RUNNING", "STOPPED"}
     /\ lop.seen \cap AppExes = {}) => logos_state = "STOPPED"

\* C14: stop() called in RUNNING or STARTING for an app that start() has
\* spawned sets STOPPING, collects the pids of the tracked processes, issues
\* the kill, sets STOPPED and only then waits for the wineserver; the state
\* is STOPPED when it returns.
C14_StopKillsTrackedThenStopped ==
    (/\ lop.op = "stop"
     /\ lop.pre \in {"RUNNING", "STARTING"}
     /\ processes["logos_exe"] = "popen") =>
        /\ lop.log = <<"STOPPING", "pids", "kill", "STOPPED", "wineserver_wait">>
        /\ logos_state = "STOPPED"

\* C15: from STARTING, a monitor() call moves logos_state to RUNNING when a
\* login process or a rendering process is running at that poll, either one
\* alone, and leaves it STARTING otherwise.
C15_StartingToRunningOnLoginOrCef ==
    (lop.op = "monitor" /\ lop.pre = "STARTING") =>
        logos_state = IF lop.seen \cap {"logos_login_exe", "logos_cef_exe"} # {}
                      THEN "RUNNING" ELSE "STARTING"

\* C16: start() sets logos_state to STARTING in its first step, before the
\* wine version is checked and before any thread or process is started, and
\* the rest of start() leaves logos_state alone: start() never sets RUNNING.
C16_StartSetsStartingFirst ==
    /\ [][(startpc = "idle" /\ startpc' = "check") =>
             /\ logos_state' = "STARTING"
             /\ threads' = threads /\ processes' = processes]_vars
    /\ [][(startpc = "check" /\ startpc' = "idle") =>
             logos_state' = logos_state]_vars

\* start() called in STOPPED has set STARTING and has not yet checked wine.
C16_Witness ==
    /\ lop.op = "start" /\ lop.pre = "STOPPED"
    /\ startpc = "check"
    /\ logos_state = "STARTING"
    /\ threads = {} /\ processes = NoProcesses

C18_RunInstalledAppTerminates ==
    (<>[](osrun \cap AppExes = {})) => <>(runpc = "done")

C20_NothingToDoLeavesDestinationAlone ==
    (bpc \in {"exited", "raised", "done"} /\ bstart.src = {} /\ bcfg.appdata
         /\ (bmode = "restore" => bcfg.backups)
         /\ outcome # "folder not accessible") =>
        /\ outcome = "there are no files to " \o bmode
        /\ \A i \in 1..Len(blog) : blog[i] \notin {"size", "rmtree", "copy"}
        /\ bfs = bstart

\* the run has done e
Logged(e) == \E i \in 1..Len(blog) : blog[i] = e

\* C21: a backup run that finds less free space at the destination than the
\* computed source size exits with 'not enough free disk space', has never
\* started the copy worker nor copied anything, and has removed the empty
\* <product>-<timestamp> folder it had created.
C21_NoSpaceExitsBeforeCopyFolderRemoved ==
    (bmode = "backup" /\ ~bcfg.space /\ Logged("disk_used_init")) =>
        /\ bpc = "exited"
        /\ outcome = "not enough free disk space for backup"
        /\ thread = "none"
        /\ ~Logged("start_thread") /\ ~Logged("copy")
        /\ bfs.dst = {}
        /\ (~bstart.folder => ~bfs.folder)

\* A backup that made its folder has exited for lack of space.
C21_Witness ==
    /\ bmode = "backup" /\ ~bcfg.space /\ ~bstart.folder
    /\ Logged("mkdir_destination") /\ Logged("rmdir")
    /\ outcome = "not enough free disk space for backup"

\* C22: a backup run whose <product>-<timestamp> folder already exists when
\* it resolves its destination exits, and nothing inside that folder has been
\* deleted, overwritten or added.
C22_ExistingBackupFolderIsHardFailure ==
    (bmode = "backup" /\ bstart.folder /\ bpc \notin {"new", "run"}) =>
        /\ bpc = "exited"
        /\ bfs = bstart

\* C23: the percents that the polling loop of one run passes to status() are
\* non-decreasing and each is at most 100, however the usage of the
\* destination's filesystem moves while the copy runs.
C23_PercentMonotoneAtMost100 ==
    \A i \in 1..Len(percents) :
        /\ percents[i] <= 100
        /\ i > 1 => percents[i - 1] <= percents[i]

C25_ZeroSizeFailsBeforeCopy ==
    (Logged("size") /\ data_size = 0) =>
        /\ thread = "none"
        /\ bpc \notin {"copy", "poll", "join", "done"}
        /\ outcome # "ZeroDivisionError"

\* a step leaves at the destination everything that was there
NothingRemoved == bfs.dst \subseteq bfs'.dst /\ bfs'.folder = bfs.folder

\* C26: after a KeyboardInterrupt in the polling loop the run has exited
\* with 'user cancelled', no 'Finished' status follows, and nothing that
\* was copied to the destination is removed.
C26_InterruptCancelsWithoutRollback ==
    /\ [](Logged("KeyboardInterrupt") =>
            /\ bpc = "exited"
            /\ outcome = "user cancelled with Ctrl+C.")
    /\ [][Logged("KeyboardInterrupt")' => NothingRemoved]_vars

\* The loop was interrupted with one subdirectory copied and another not.
C26_Witness ==
    /\ Logged("KeyboardInterrupt")
    /\ bfs.dst # {} /\ bfs.dst # bfs.src
    /\ thread = "alive"

\* the items of a list
Items(s) == {s[i] : i \in 1..Len(s)}

\* C27: the backups that the restore prompt offers are exactly the
\* directories directly under the backup root whose name starts with the
\* product's name, plain files and other names left out, each once; the
\* list that _get_all_backups returned is in ascending order of the path
\* strings, and its last item is the prompt's first option.
C27_BackupsListedSortedLatestFirst ==
    bpc = "asked" =>
        /\ Items(options) = {n \in BackupNames : /\ backup_dir[n] = "dir"
                                                 /\ n[1] = raw.faithlife_product}
        /\ Len(options) = Cardinality(Items(options))
        /\ \A i \in 2..Len(options) : \A j \in 2..Len(options) :
               i < j => StrLess(options[i], options[j])
        /\ \A i \in 2..Len(options) : StrLess(options[i], options[1])

\* Three Logos backups, a Verbum backup and a plain file named after the
\* product are under the backup root.
C27_Witness ==
    /\ bpc = "asked"
    /\ raw.faithlife_product = "Logos"
    /\ backup_dir[<<"Logos">>] = "file"
    /\ backup_dir[<<"Verbum", "-20240101">>] = "dir"
    /\ backup_dir[<<"old", "Logos">>] = "dir"
    /\ options = << <<"Logos", "-20240103">>, <<"Logos", "-20240101">>,
                    <<"Logos", "-20240102">> >>

(***************************************************************************)
(* Wine binary claims                                                      *)
(***************************************************************************)
\* the name of the path ends in '.appimage', whatever the case of its letters
AnyCaseAppImage(p) == p.ext \in {".appimage", ".AppImage", ".APPIMAGE"}

FileValue(k) ==
    IF config_file.kind \in {"json", "conf"} /\ config_file.items[k] # None
    THEN (IF config_file.kind = "conf" /\ config_file.items[k] = "'v'"
          THEN "v" ELSE config_file.items[k])
    ELSE None

\* load_from_path has returned a LegacyConfiguration
Loaded == legacy.state = "loaded"

TweaksStepDone == Len(order) > 17

\* the gated tweaks this invocation has applied had their marker absent
\* from the registry files
GatedTweaksOnlyWithoutMarker ==
    \A m \in DOMAIN Tweaks : Tweaks[m] \in effects => m \notin envStart

ReturnedFrom(name) == lop' # lop /\ lop'.op = name /\ ~lop'.raised

\* neither self.processes nor self.existing_processes holds anything under x
NoEntry(x) == processes'[x] = "none" /\ x \notin existing_processes'

\* C31: when stop() returns, the process mappings hold no entry, spawned
\* handle or discovered list, for the main, login and rendering executables;
\* when stop_indexing() returns they hold none for the indexer.
C31_StopClearsProcessEntries ==
    [][/\ ReturnedFrom("stop") => \A x \in AppExes : NoEntry(x)
       /\ ReturnedFrom("stop_indexing") => NoEntry("logos_indexer_exe")]_vars


\* this step is a call of the named operation, returned or not
Called(name) == lop' # lop /\ lop'.op = name

\* nothing is stored in self.processes under any of the names
NoneTracked(names) == \A x \in names : processes[x] = "none"

\* C32: stop() called with no tracked process for the main, login and
\* rendering executables issues no kill command, does not raise and leaves
\* logos_state at STOPPED; stop_indexing() called with no tracked indexer
\* does the same for indexing_state.
C32_StopWithNothingTrackedIsQuiet ==
    [][/\ (Called("stop") /\ NoneTracked(AppExes))
          => /\ ~lop'.raised
             /\ ~(\E i \in DOMAIN lop'.log : lop'.log[i] = "kill")
             /\ logos_state' = "STOPPED"
       /\ (Called("stop_indexing") /\ NoneTracked({"logos_indexer_exe"}))
          => /\ ~lop'.raised
             /\ ~(\E i \in DOMAIN lop'.log : lop'.log[i] = "kill")
             /\ indexing_state' = "STOPPED"]_vars

C32_Witness ==
    /\ lop.op = "stop"
    /\ lop.pre = "RUNNING"
    /\ ~lop.raised
    /\ NoneTracked(AppExes)
    /\ logos_state = "STOPPED"


\* this step is the end of a background thread, outside any call
ThreadStep ==
    /\ lop' = lop
    /\ \/ threads' # threads /\ threads' \subseteq threads
       \/ waiters' # waiters

C34_DiskEqualsMemoryAfterEveryChange ==
    (last # Idle /\ ~last.err /\ last.changed) => disk = raw


(***************************************************************************)
(* Backup claims, continued                                                *)
(***************************************************************************)
\* C35: reading Config.backup_dir is repeatable: with the backup folder
\* resolved and on disk every read returns it without raising, so the
\* construction of a BackupTask or RestoreTask, which reads it more than
\* once, does not fail when the folder already exists.
C35_BackupDirReadRepeatable ==
    (bcfg.dir # None /\ bcfg.dir \in bcfg.made /\ bpc # "new")
        => outcome # "FileExistsError"


\* C36: a restore run that fails before copying (nothing to restore, or not
\* enough free space at the destination) leaves the Data, Documents and
\* Users directories of the destination as they were: live data is deleted
\* only in a run whose copy starts.
C36_RestoreFailingBeforeCopyKeepsLiveData ==
    (bmode = "restore" /\ bpc \in {"exited", "raised"} /\ ~Logged("start_thread"))
        => bfs.dst = bstart.dst


\* C37: the 'Finished <mode>' status is emitted only after the copy worker
\* has ended and only if it has copied every source subdirectory without
\* error: a run whose worker stopped on a copy error is not reported as
\* finished.
C37_FinishedOnlyAfterCompleteCopy ==
    bpc = "done" =>
        /\ thread = "dead"
        /\ ~Logged("copy_error")
        /\ bfs.src \subseteq bfs.dst


\* C38: write_config only serialises: after a call that wrote the
\* configuration, every field of the in-memory persistent configuration has
\* the value it had when write_config was entered (paths are made relative
\* to install_dir in the written file only), and writing again gives the
\* same file.
C38_WriteConfigLeavesMemoryAlone ==
    /\ last.wrote => last.kept
    /\ write_config(Here).disk = disk \/ ~last.wrote


(***************************************************************************)
(* Wine rule claims                                                        *)
(***************************************************************************)
\* the minimum required for the product version checked
WineMinimum == required_wine_minimum(wine_target.version, wine_target.older)

\* (major, minor) of the release is below the minimum
BelowMinimum ==
    \/ wine_release.major < WineMinimum[1]
    \/ wine_release.major = WineMinimum[1] /\ wine_release.minor < WineMinimum[2]

\* C39: for a known wine release, check_wine_rules returns (False, reason)
\* whenever (major, minor) is below the minimum required for the product
\* version, majors that no rule lists (6.x and lower) included, a 7.x that
\* the Proton rule permits being the only exception; it returns True only
\* for releases at or above the minimum.
C39_BelowMinimumRejected ==
    (/\ wine_verdict.state = "returned"
     /\ wine_release.known
     /\ BelowMinimum
     /\ wine_release.major # 7)
        => ~wine_verdict.ok


(***************************************************************************)
(* Database watcher claims                                                 *)
(***************************************************************************)
\* C40: watch_db executes the statements once at start and then exactly
\* once for every write made by another process: a modification event
\* caused by its own execution never triggers a further execution, the
\* first event of an external write always triggers one and the further
\* events of the same write never do.
C40_OneExecutionPerExternalWrite ==
    /\ handled.event = "own" => handled.action # "executed"
    /\ handled.event = "ext_first" => handled.action = "executed"
    /\ handled.event = "ext_more" => handled.action # "executed"

====
